---- MODULE Spec2Model ----
(***************************************************************************)
(* A model of the PMTiles storage engine (writer, directory packing,       *)
(* reader with its leaf cache) and of the from_stacked pipeline operation  *)
(* of versatiles-rs.                                                       *)
(*                                                                         *)
(* Three specifications share the variables:                               *)
(*   Spec         PMTilesWriter::write_to_writer on a tile source, then    *)
(*                PMTilesReader opening the written file and iterating it. *)
(*   SpecReader   PMTilesReader::get_tile_data, called concurrently, on a  *)
(*                container drawn from a bounded set of directory trees.   *)
(*   SpecStacked  from_stacked's get_stream over a list of sources.        *)
(***************************************************************************)
EXTENDS Integers, Sequences, FiniteSets, TLC

VARIABLES
    source,     \* the tile source: tile id -> blob length, for the tiles it has
    metaLen,    \* length of the compressed metadata blob
    w,          \* write_to_writer's locals and position in its code
    file,       \* what the byte sink / the opened container holds
    rd,         \* PMTilesReader: the opened container and the iteration over it
    call,       \* per caller: the get_tile_data call in progress
    lock,       \* leaves_cache mutex: 0 when free, else the caller holding it
    cache,      \* leaves_cache content: [key, dir] in order of use
    hist,       \* history of the cache fills (for the properties only)
    st,         \* from_stacked: sources, blocks and output of one get_stream
    op          \* a pipeline operation or a codec: its arguments, position, results

vars == <<source, metaLen, w, file, rd, call, lock, cache, hist, st, op>>

(***************************************************************************)
(* Bounds of the model and scale of the sizes.                             *)
(***************************************************************************)
\* tile ids 0..MaxTileId exist in the source's pyramid (0 is level 0, 1..4 level 1,
\* 5..20 level 2)
MaxTileId == 4
\* a tile's bytes are 0 or MaxBlobLen bytes long
MaxBlobLen == 1
\* the compressed metadata is 1..MaxMetaLen bytes long
MaxMetaLen == 2
\* bytes one directory entry takes in a compressed directory (scaled up so
\* that three entries exceed the root budget of 16257 bytes and fit in 16384)
EntryLen == 5450
\* bytes of an empty compressed directory
DirOverhead == 20
\* the leaf-size parameter before its first doubling
LeafSizeInit == 1
\* ceiling of the leaf-size parameter (scaled down from >= 65536)
StepCeiling == 2
\* byte budget of the leaves cache (scaled down from 100_000_000): one
\* single-entry leaf directory fits
CacheLimit == 5450
\* number of concurrent callers of get_tile_data
NumCallers == 2
\* get_tile_data is asked for the tile ids 0..MaxLookupId
MaxLookupId == 1
\* number of sources of from_stacked
NumSources == 2

(***************************************************************************)
(* Program constants.                                                      *)
(***************************************************************************)
\* HeaderV3::len()
HeaderLen == 127
\* the bytes reserved for header and root directory
RootReserve == 16384
\* a loop that looks at the root directory only
OneLevel == Len(<<"root">>)

\* the directory levels get_tile_data walks: for _depth in 0..3
MaxDepth == 3
\* iter_bbox_grid(32) in from_stacked
GridSize == 32

NoDir == <<>>

Min(a, b) == IF a < b THEN a ELSE b
Max(a, b) == IF a > b THEN a ELSE b

RECURSIVE Pow4(_)
Pow4(n) == IF n = 0 THEN 1 ELSE 4 * Pow4(n - 1)

\* first tile id of level L: S_L = (4^L - 1) / 3
LevelStart(L) == (Pow4(L) - 1) \div 3

RECURSIVE LevelFrom(_, _)
LevelFrom(id, L) == IF id < LevelStart(L + 1) THEN L ELSE LevelFrom(id, L + 1)

\* the level of a tile id
LevelOf(id) == LevelFrom(id, 0)

TileIds == 0 .. MaxTileId
Levels == 0 .. LevelOf(MaxTileId)

(***************************************************************************)
(* Hilbert curve: tile id <-> (level, x, y).                               *)
(***************************************************************************)
\* one step of the iterative decoding, s = 1, 2, 4, ... < 2^level
RECURSIVE HilbertDecode(_, _, _, _, _)
HilbertDecode(n, s, t, x, y) ==
    IF s >= n THEN [x |-> x, y |-> y]
    ELSE LET rx == (t \div 2) % 2
             ry == (t + rx) % 2      \* 1 & (t ^ rx)
             xr == IF ry = 0 THEN (IF rx = 1 THEN s - 1 - y ELSE y) ELSE x
             yr == IF ry = 0 THEN (IF rx = 1 THEN s - 1 - x ELSE x) ELSE y
         IN HilbertDecode(n, 2 * s, t \div 4, xr + s * rx, yr + s * ry)

RECURSIVE Pow2(_)
Pow2(n) == IF n = 0 THEN 1 ELSE 2 * Pow2(n - 1)

tile_id_to_coord(id) ==
    LET L == LevelOf(id)
        p == HilbertDecode(Pow2(L), 1, id - LevelStart(L), 0, 0)
    IN [level |-> L, x |-> p.x, y |-> p.y]

\* the tile ids of the coordinates in the bbox, level by level, that
\* include_coord grows when given the coordinates of `ids`
HullIds(ids) ==
    LET cs == {tile_id_to_coord(i) : i \in ids}
    IN {i \in TileIds :
          LET ci == tile_id_to_coord(i)
              same == {c \in cs : c.level = ci.level}
          IN /\ \E a \in same, b \in same : a.x <= ci.x /\ ci.x <= b.x
             /\ \E a \in same, b \in same : a.y <= ci.y /\ ci.y <= b.y}

(***************************************************************************)
(* Blobs, entries, directories.                                            *)
(***************************************************************************)
\* the bytes of tile t when they are n bytes long
BlobOf(t, n) == [i \in 1 .. n |-> t + 1]

EntryV3(tile_id, offset, length, run_length) ==
    [tile_id |-> tile_id, offset |-> offset, length |-> length, run_length |-> run_length]

\* bytes of a compressed serialised directory of these entries
CompressedLen(entries) == DirOverhead + Len(entries) * EntryLen

IsSorted(entries) ==
    \A i \in 1 .. Len(entries) - 1 : entries[i].tile_id <= entries[i + 1].tile_id

RECURSIVE SumRun(_)
SumRun(entries) ==
    IF entries = <<>> THEN 0 ELSE Head(entries).run_length + SumRun(Tail(entries))

\* EntriesV3::tile_count
tile_count(entries) == SumRun(entries)


(***************************************************************************)
(* EntriesV3::find_tile: binary search for the last entry whose tile_id is *)
(* at most t, then the run-length test.                                    *)
(***************************************************************************)
NotFound == [found |-> FALSE, entry |-> EntryV3(0, 0, 0, 0)]
Found(e) == [found |-> TRUE, entry |-> e]

\* the entries before index lo have tile_id <= t, those after index hi have tile_id > t
RECURSIVE BinarySearch(_, _, _, _)
BinarySearch(entries, t, lo, hi) ==
    IF lo > hi THEN hi
    ELSE LET k == (lo + hi) \div 2
         IN IF entries[k].tile_id <= t
            THEN BinarySearch(entries, t, k + 1, hi)
            ELSE BinarySearch(entries, t, lo, k - 1)

\* an entry is found only for its first tile id: the run-length test is missing
find_tile_exact(entries, t) ==
    LET n == BinarySearch(entries, t, 1, Len(entries))
    IN IF n = 0 THEN NotFound
       ELSE LET e == entries[n]
            IN IF e.run_length = 0 THEN Found(e)
               ELSE IF t = e.tile_id THEN Found(e)
               ELSE NotFound

find_tile(entries, t) ==
    LET n == BinarySearch(entries, t, 1, Len(entries))
    IN IF n = 0 THEN NotFound
       ELSE LET e == entries[n]
            IN IF e.run_length = 0 THEN Found(e)
               ELSE IF t < e.tile_id + e.run_length THEN Found(e)
               ELSE NotFound

(***************************************************************************)
(* EntriesV3::as_directory: packing an entries list into a root directory  *)
(* and leaf directories within a budget for the compressed root.           *)
(***************************************************************************)
Leaf(offset, dir) ==
    [offset |-> offset, length |-> CompressedLen(dir), ok |-> TRUE, dir |-> dir]

\* split the entries from index i on into leaves of `step` entries; `off` is the
\* running position in the leaves region
RECURSIVE Chunks(_, _, _, _)
Chunks(entries, step, i, off) ==
    IF i > Len(entries) THEN <<>>
    ELSE LET chunk == SubSeq(entries, i, Min(i + step - 1, Len(entries)))
             leaf == Leaf(off, chunk)
         IN <<leaf>> \o Chunks(entries, step, i + step, off + leaf.length)

\* one root entry per leaf: the leaf's first tile id, run_length 0, its byte range
RootOf(leaves) ==
    [i \in 1 .. Len(leaves) |->
        EntryV3(leaves[i].dir[1].tile_id, leaves[i].offset, leaves[i].length, 0)]

build_roots_leaves(entries, step) ==
    LET leaves == Chunks(entries, step, 1, 0)
    IN [ok |-> TRUE, root |-> RootOf(leaves), leaves |-> leaves]

RootOverflow == [ok |-> FALSE, root |-> <<>>, leaves |-> <<>>]

RECURSIVE PackLoop(_, _, _)
PackLoop(entries, budget, step) ==
    IF step > StepCeiling THEN RootOverflow
    ELSE LET d == build_roots_leaves(entries, step)
         IN IF CompressedLen(d.root) <= budget THEN d
            ELSE PackLoop(entries, budget, 2 * step)

as_directory(entries, budget) ==
    IF CompressedLen(entries) <= budget
    THEN [ok |-> TRUE, root |-> entries, leaves |-> <<>>]
    ELSE PackLoop(entries, budget, 2 * LeafSizeInit)

RECURSIVE LeavesLen(_)
LeavesLen(leaves) ==
    IF leaves = <<>> THEN 0 ELSE Head(leaves).length + LeavesLen(Tail(leaves))


(***************************************************************************)
(* The byte sink, the header and the source.                               *)
(***************************************************************************)
ByteRange(offset, length) == [offset |-> offset, length |-> length]

\* HeaderV3::from(&parameters): ranges and counters not yet filled
HeaderV3 ==
    [root_dir |-> ByteRange(0, 0), metadata |-> ByteRange(0, 0),
     leaf_dirs |-> ByteRange(0, 0), tile_data |-> ByteRange(0, 0),
     addressed_tiles_count |-> 0, tile_entries_count |-> 0,
     tile_contents_count |-> 0, clustered |-> FALSE]

\* an empty sink
EmptyFile ==
    [meta |-> ByteRange(0, 0), tilesAt |-> 0, tiles |-> <<>>,
     rootAt |-> ByteRange(0, 0), root |-> <<>>,
     leavesAt |-> ByteRange(0, 0), leaves |-> {},
     hasHeader |-> FALSE, header |-> HeaderV3, log |-> <<>>]

\* the sources: every tile id of the pyramid is absent or present; a present
\* tile has MaxBlobLen bytes, but for at most one tile of no bytes at all
Sources ==
    UNION {{[t \in D |-> IF t = z THEN 0 ELSE MaxBlobLen] : z \in D \cup {-1}} :
              D \in SUBSET TileIds}

TileBytes(t) == BlobOf(t, source[t])

\* the blocks of the pyramid, iter_bbox_grid(256) of every level: one block per
\* level as long as a level is at most 256 tiles wide; key: the block's tile id
RECURSIVE SortByKey(_)
SortByKey(S) ==
    IF S = {} THEN <<>>
    ELSE LET m == CHOOSE a \in S : \A b \in S : LevelStart(a) <= LevelStart(b)
         IN <<m>> \o SortByKey(S \ {m})

Blocks == SortByKey(Levels)

\* the tiles the source streams for the block of level L
BlockTiles(L) == {t \in DOMAIN source : LevelOf(t) = L}

WriterInit ==
    [pc |-> "start", blocks |-> <<>>, stream |-> {}, pos |-> 0,
     tile_data_start |-> 0, tile_data_end |-> 0, entries |-> <<>>,
     header |-> HeaderV3, directory |-> RootOverflow, error |-> "none"]

(***************************************************************************)
(* PMTilesWriter::write_to_writer.                                         *)
(***************************************************************************)
\* lines 59-84: the sorted blocks, the reserved bytes, the metadata
WriteMeta ==
    /\ w.pc = "start"
    /\ LET range == ByteRange(RootReserve, metaLen)
       IN /\ w' = [w EXCEPT !.pc = "blocks",
                            !.blocks = Blocks,
                            !.header.metadata = range,
                            !.pos = RootReserve + metaLen,
                            !.tile_data_start = RootReserve + metaLen]
          /\ file' = [file EXCEPT !.meta = range,
                                  !.tilesAt = RootReserve + metaLen,
                                  !.log = Append(@, "metadata")]
    /\ UNCHANGED <<source, metaLen, rd, call, lock, cache, hist, st, op>>

\* line 87: the stream of the next block
OpenBlock ==
    /\ w.pc = "blocks"
    /\ w.blocks # <<>>
    /\ w' = [w EXCEPT !.pc = "stream", !.stream = BlockTiles(Head(w.blocks))]
    /\ UNCHANGED <<source, metaLen, file, rd, call, lock, cache, hist, st, op>>

\* lines 88-96: the stream's next tile, whichever it is
AppendTile(t) ==
    /\ w.pc = "stream"
    /\ t \in w.stream
    /\ LET blob == TileBytes(t)
           range == ByteRange(w.pos, Len(blob))
       IN /\ w' = [w EXCEPT !.stream = @ \ {t},
                            !.pos = @ + Len(blob),
                            !.entries = Append(@,
                                EntryV3(t, range.offset - w.tile_data_start,
                                        range.length, 1))]
          /\ file' = [file EXCEPT !.tiles = @ \o blob,
                                  !.log = Append(@, "tile")]
    /\ UNCHANGED <<source, metaLen, rd, call, lock, cache, hist, st, op>>

\* line 91: the sink fails on a tile's bytes, and unwrap panics
AppendPanic ==
    /\ w.pc = "stream"
    /\ w.stream # {}
    /\ w' = [w EXCEPT !.pc = "panic", !.error = "io"]
    /\ UNCHANGED <<source, metaLen, file, rd, call, lock, cache, hist, st, op>>

\* lines 99-100: the stream has ended
CloseBlock ==
    /\ w.pc = "stream"
    /\ w.stream = {}
    /\ w' = [w EXCEPT !.pc = "blocks", !.blocks = Tail(@)]
    /\ UNCHANGED <<source, metaLen, file, rd, call, lock, cache, hist, st, op>>

\* lines 104-106
EndTileData ==
    /\ w.pc = "blocks"
    /\ w.blocks = <<>>
    /\ w' = [w EXCEPT !.pc = "root",
                      !.tile_data_end = w.pos,
                      !.header.tile_data =
                          ByteRange(w.tile_data_start, w.pos - w.tile_data_start)]
    /\ UNCHANGED <<source, metaLen, file, rd, call, lock, cache, hist, st, op>>

\* lines 108-110: pack the directory within the budget, write the root behind
\* the header; as_directory's error is returned
WriteRootWith(budget) ==
    /\ w.pc = "root"
    /\ LET directory == as_directory(w.entries, budget)
           range == ByteRange(HeaderLen, CompressedLen(directory.root))
       IN IF directory.ok
          THEN /\ w' = [w EXCEPT !.pc = "leaves",
                                 !.directory = directory,
                                 !.pos = HeaderLen + range.length,
                                 !.header.root_dir = range]
               /\ file' = [file EXCEPT !.rootAt = range,
                                       !.root = directory.root,
                                       !.log = Append(@, "root")]
          ELSE /\ w' = [w EXCEPT !.pc = "err", !.pos = HeaderLen,
                                 !.error = "RootOverflow"]
               /\ file' = file
    /\ UNCHANGED <<source, metaLen, rd, call, lock, cache, hist, st, op>>

\* the budget is the whole reserve: the header's bytes are not subtracted
WriteRootWholeReserve == WriteRootWith(RootReserve)

WriteRoot == WriteRootWith(RootReserve - HeaderLen)

\* serialising entries whose tile ids decrease: the u64 delta underflows, which
\* panics in a build with overflow checks (and wraps in one without: WriteRoot)
DeltaOverflow ==
    /\ w.pc = "root"
    /\ ~IsSorted(w.entries)
    /\ w' = [w EXCEPT !.pc = "panic"]
    /\ UNCHANGED <<source, metaLen, file, rd, call, lock, cache, hist, st, op>>

\* the leaves are appended where the root ended: the seek is missing
WriteLeavesNoSeek ==
    /\ w.pc = "leaves"
    /\ LET range == ByteRange(w.pos, LeavesLen(w.directory.leaves))
       IN /\ w' = [w EXCEPT !.pc = "header",
                            !.pos = w.pos + range.length,
                            !.header.leaf_dirs = range]
          /\ file' = [file EXCEPT !.leavesAt = range,
                                  !.leaves = {w.directory.leaves[i] :
                                                 i \in 1 .. Len(w.directory.leaves)},
                                  !.log = Append(@, "leaves")]
    /\ UNCHANGED <<source, metaLen, rd, call, lock, cache, hist, st, op>>

\* lines 112-113: the leaves behind the tile data
WriteLeaves ==
    /\ w.pc = "leaves"
    /\ LET range == ByteRange(w.tile_data_end, LeavesLen(w.directory.leaves))
       IN /\ w' = [w EXCEPT !.pc = "header",
                            !.pos = w.tile_data_end + range.length,
                            !.header.leaf_dirs = range]
          /\ file' = [file EXCEPT !.leavesAt = range,
                                  !.leaves = {w.directory.leaves[i] :
                                                 i \in 1 .. Len(w.directory.leaves)},
                                  !.log = Append(@, "leaves")]
    /\ UNCHANGED <<source, metaLen, rd, call, lock, cache, hist, st, op>>

\* the header is written before the flag and the counters are set
WriteHeaderEarly ==
    /\ w.pc = "header"
    /\ w' = [w EXCEPT !.pc = "done"]
    /\ file' = [file EXCEPT !.hasHeader = TRUE,
                            !.header = w.header,
                            !.log = Append(@, "header")]
    /\ UNCHANGED <<source, metaLen, rd, call, lock, cache, hist, st, op>>

\* lines 115-123: the counters, then the header at offset 0
WriteHeader ==
    /\ w.pc = "header"
    /\ LET header == [w.header EXCEPT
                        !.clustered = TRUE,
                        !.addressed_tiles_count = tile_count(w.entries),
                        !.tile_entries_count = Len(w.entries),
                        !.tile_contents_count = Len(w.entries)]
       IN /\ w' = [w EXCEPT !.pc = "done", !.header = header]
          /\ file' = [file EXCEPT !.hasHeader = TRUE,
                                  !.header = header,
                                  !.log = Append(@, "header")]
    /\ UNCHANGED <<source, metaLen, rd, call, lock, cache, hist, st, op>>

\* a seek or a write of the sink fails and `?` returns the error
SinkError ==
    /\ w.pc \in {"start", "root", "leaves", "header"}
    /\ w' = [w EXCEPT !.pc = "err", !.error = "io"]
    /\ UNCHANGED <<source, metaLen, file, rd, call, lock, cache, hist, st, op>>


(***************************************************************************)
(* PMTilesReader: open_reader and calc_bbox_pyramid.                       *)
(***************************************************************************)
Ok(v) == [ok |-> TRUE, value |-> v]
Err == [ok |-> FALSE, value |-> <<>>]

\* leaves_bytes.read_range(&range) and decompress: the directory stored at
\* exactly this range of the leaves region, an error for any other range
ReadLeaf(header, range) ==
    LET hit == {l \in file.leaves :
                  l.offset = range.offset /\ l.length = range.length /\ l.ok}
    IN IF header.leaf_dirs = file.leavesAt /\ hit # {}
       THEN Ok((CHOOSE l \in hit : TRUE).dir)
       ELSE Err

\* data_reader.read_range: the bytes at an absolute range of the file; the
\* tile bytes when the range lies in the tile data, an error behind them
ReadData(range) ==
    LET rel == range.offset - file.tilesAt
    IN IF rel >= 0 /\ rel + range.length <= Len(file.tiles)
       THEN Ok(SubSeq(file.tiles, rel + 1, rel + range.length))
       ELSE Err

\* parse_directories: the tile ids the directory tree addresses; `fuel` bounds
\* the recursion depth
RECURSIVE parse_directories(_, _, _)
parse_directories(header, dir, fuel) ==
    IF fuel = 0 THEN [ok |-> FALSE, ids |-> {}]
    ELSE LET sub(e) ==
                 IF e.length = 0 THEN [ok |-> TRUE, ids |-> {}]
                 ELSE IF e.run_length > 0
                 THEN [ok |-> TRUE, ids |-> e.tile_id .. (e.tile_id + e.run_length - 1)]
                 ELSE LET blob == ReadLeaf(header, ByteRange(e.offset, e.length))
                      IN IF blob.ok THEN parse_directories(header, blob.value, fuel - 1)
                         ELSE [ok |-> FALSE, ids |-> {}]
             parts == {sub(dir[i]) : i \in 1 .. Len(dir)}
         IN [ok |-> \A r \in parts : r.ok, ids |-> UNION {r.ids : r \in parts}]

RECURSIVE SortIds(_)
SortIds(S) ==
    IF S = {} THEN <<>>
    ELSE LET m == CHOOSE a \in S : \A b \in S : a <= b
         IN <<m>> \o SortIds(S \ {m})

ReaderInit ==
    [pc |-> "closed", header |-> HeaderV3, root |-> <<>>, queue |-> <<>>,
     got |-> {}, errs |-> {}]

Callers == 1 .. NumCallers

CallIdle ==
    [pc |-> "idle", tile |-> 0, depth |-> 0, dir |-> <<>>, seen |-> <<>>,
     found |-> NotFound, key |-> ByteRange(0, 0), res |-> "none", blob |-> <<>>]

NoHist == [filled |-> {}, failed |-> {}, hits |-> {}]

\* lines 82-115; then the bbox pyramid's coordinates are queued for iteration
OpenReader ==
    /\ w.pc = "done"
    /\ rd.pc = "closed"
    /\ LET header == file.header
           rootOk == file.hasHeader /\ header.root_dir = file.rootAt
                     /\ header.metadata = file.meta
           opened == [rd EXCEPT !.header = header, !.root = file.root]
           pyramid == parse_directories(header, file.root, MaxDepth + 1)
       IN IF rootOk /\ header.leaf_dirs = file.leavesAt /\ pyramid.ok
          THEN rd' = [opened EXCEPT !.pc = "open",
                                    !.queue = SortIds(HullIds(pyramid.ids))]
          ELSE rd' = [rd EXCEPT !.pc = "failed"]
    /\ UNCHANGED <<source, metaLen, w, file, call, lock, cache, hist, st, op>>


(***************************************************************************)
(* LimitedCache: entries in order of use, the least recently used first.   *)
(***************************************************************************)
\* bytes of a decompressed directory blob
BlobLen(dir) == Len(dir) * EntryLen

RECURSIVE CacheUsed(_)
CacheUsed(c) == IF c = <<>> THEN 0 ELSE BlobLen(Head(c).dir) + CacheUsed(Tail(c))

CacheKeys(c) == {c[i].key : i \in 1 .. Len(c)}

CacheIndex(c, key) == CHOOSE i \in 1 .. Len(c) : c[i].key = key

\* a hit moves the entry to the most recently used end
CacheTouch(c, key) ==
    LET i == CacheIndex(c, key)
    IN SubSeq(c, 1, i - 1) \o SubSeq(c, i + 1, Len(c)) \o <<c[i]>>

\* drop least recently used entries until the byte budget holds
RECURSIVE CacheEvict(_)
CacheEvict(c) == IF CacheUsed(c) <= CacheLimit THEN c ELSE CacheEvict(Tail(c))

CacheAdd(c, key, dir) == CacheEvict(Append(c, [key |-> key, dir |-> dir]))

(***************************************************************************)
(* PMTilesReader::get_tile_data, one caller p.                             *)
(***************************************************************************)
\* the results that are an Err: a failed read, and bail!("not found")
IsErr(res) == res \in {"err", "notfound"}

\* the call returns: Ok(None), Ok(Some(blob)) or an Err
Finish(c, res, blob) == [c EXCEPT !.pc = "done", !.res = res, !.blob = blob]

\* the call ends as if the loop had ended without a result
ReturnNotFound(c) == Finish(c, "notfound", <<>>)

\* lines 217-221, 245-248: `return Ok(None)`, nothing is read
ReturnNone(c) == Finish(c, "none", <<>>)

\* a failed read ends the call with the tile reported missing
ReadErrorNone(c) == Finish(c, "none", <<>>)

\* lines 231, 243: `?` on a failed read returns the error to the caller
ReadError(c) == Finish(c, "err", <<>>)

\* the loop ended without a result, and the tile is reported missing
ExhaustedNone(c) == Finish(c, "none", <<>>)

\* line 252: the loop ended without a result, bail!("not found")
Exhausted(c) == Finish(c, "notfound", <<>>)


\* lines 210-232, 245-252: one pass of the loop up to the data read or the
\* request for the leaves cache, or the end of the loop without a result
Examine(p) ==
    /\ call[p].pc = "examine"
    /\ LET c == [call[p] EXCEPT !.depth = @ + 1,
                                !.seen = call[p].dir,
                                !.found = find_tile(call[p].dir, call[p].tile)]
           e == c.found.entry
       IN call' = [call EXCEPT ![p] =
            IF call[p].depth >= MaxDepth THEN Exhausted(call[p])
            ELSE IF ~c.found.found THEN ReturnNone(c)
            ELSE IF e.length > 0
            THEN IF e.run_length > 0
                 THEN LET data == ReadData(ByteRange(
                                     e.offset + rd.header.tile_data.offset, e.length))
                      IN IF data.ok THEN Finish(c, "data", data.value)
                         ELSE ReadError(c)
                 ELSE [c EXCEPT !.pc = "lock", !.key = ByteRange(e.offset, e.length)]
            ELSE ReturnNone(c)]
    /\ UNCHANGED <<source, metaLen, w, file, rd, lock, cache, hist, st, op>>

\* the cache is used without waiting for the mutex
AcquireNoWait(p) ==
    /\ call[p].pc = "lock"
    /\ lock' = p
    /\ call' = [call EXCEPT ![p].pc = "locked"]
    /\ UNCHANGED <<source, metaLen, w, file, rd, cache, hist, st, op>>

\* line 236: leaves_cache.lock().await
Acquire(p) ==
    /\ call[p].pc = "lock"
    /\ lock = 0
    /\ lock' = p
    /\ call' = [call EXCEPT ![p].pc = "locked"]
    /\ UNCHANGED <<source, metaLen, w, file, rd, cache, hist, st, op>>

\* line 238: get_or_set finds the key; the guard is dropped
CacheHit(p) ==
    /\ call[p].pc = "locked"
    /\ call[p].key \in CacheKeys(cache)
    /\ cache' = CacheTouch(cache, call[p].key)
    /\ call' = [call EXCEPT ![p].pc = "examine",
                            ![p].dir = cache[CacheIndex(cache, call[p].key)].dir]
    /\ lock' = 0
    /\ hist' = [hist EXCEPT !.hits = @ \cup {call[p].key}]
    /\ UNCHANGED <<source, metaLen, w, file, rd, st, op>>

\* line 238: get_or_set does not find the key and calls the closure
FillBegin(p) ==
    /\ call[p].pc = "locked"
    /\ call[p].key \notin CacheKeys(cache)
    /\ call' = [call EXCEPT ![p].pc = "filling"]
    /\ UNCHANGED <<source, metaLen, w, file, rd, lock, cache, hist, st, op>>

\* lines 239-243: the closure reads and decompresses the leaf; get_or_set
\* stores it, or `?` returns the closure's error; the guard is dropped
FillEnd(p) ==
    /\ call[p].pc = "filling"
    /\ LET blob == ReadLeaf(rd.header, call[p].key)
       IN IF blob.ok
          THEN /\ cache' = CacheAdd(cache, call[p].key, blob.value)
               /\ call' = [call EXCEPT ![p].pc = "examine", ![p].dir = blob.value]
               /\ hist' = [hist EXCEPT !.filled = @ \cup {call[p].key}]
          ELSE /\ cache' = cache
               /\ call' = [call EXCEPT ![p] = ReadError(call[p])]
               /\ hist' = [hist EXCEPT !.failed = @ \cup {call[p].key}]
    /\ lock' = 0
    /\ UNCHANGED <<source, metaLen, w, file, rd, st, op>>

\* the steps of a call in progress
Step(p) ==
    \/ Examine(p)
    \/ Acquire(p)
    \/ CacheHit(p)
    \/ FillBegin(p)
    \/ FillEnd(p)

(***************************************************************************)
(* Iterating the opened file: get_tile_data for every coordinate of the    *)
(* bbox pyramid, by caller 1.                                              *)
(***************************************************************************)
NewCall(t) == [CallIdle EXCEPT !.pc = "examine", !.tile = t, !.dir = rd.root]

IterNext ==
    /\ rd.pc = "open"
    /\ call[1].pc = "idle"
    /\ rd.queue # <<>>
    /\ call' = [call EXCEPT ![1] = NewCall(Head(rd.queue))]
    /\ UNCHANGED <<source, metaLen, w, file, rd, lock, cache, hist, st, op>>

IterCollect ==
    /\ rd.pc = "open"
    /\ call[1].pc = "done"
    /\ rd' = [rd EXCEPT
                !.queue = Tail(@),
                !.got = IF call[1].res = "data"
                        THEN @ \cup {[id |-> call[1].tile, bytes |-> call[1].blob]}
                        ELSE @,
                !.errs = IF IsErr(call[1].res) THEN @ \cup {call[1].tile} ELSE @]
    /\ call' = [call EXCEPT ![1] = CallIdle]
    /\ UNCHANGED <<source, metaLen, w, file, lock, cache, hist, st, op>>

IterEnd ==
    /\ rd.pc = "open"
    /\ call[1].pc = "idle"
    /\ rd.queue = <<>>
    /\ rd' = [rd EXCEPT !.pc = "ready"]
    /\ UNCHANGED <<source, metaLen, w, file, call, lock, cache, hist, st, op>>

(***************************************************************************)
(* Callers of get_tile_data on the opened reader.                          *)
(***************************************************************************)
\* a caller asks for tile t
Request(p, t) ==
    /\ rd.pc = "ready"
    /\ call[p].pc = "idle"
    /\ call' = [call EXCEPT ![p] = NewCall(t)]
    /\ UNCHANGED <<source, metaLen, w, file, rd, lock, cache, hist, st, op>>

\* the caller takes the result
Return(p) ==
    /\ rd.pc = "ready"
    /\ call[p].pc = "done"
    /\ call' = [call EXCEPT ![p] = CallIdle]
    /\ UNCHANGED <<source, metaLen, w, file, rd, lock, cache, hist, st, op>>

(***************************************************************************)
(* Spec: write a source, open the file, iterate it, then ask it for tiles. *)
(***************************************************************************)
NoStack == [pc |-> "off"]

\* no operation is being constructed or evaluated
NoOp == [pc |-> "off"]

Init ==
    /\ source \in Sources
    /\ metaLen \in 1 .. MaxMetaLen
    /\ w = WriterInit
    /\ file = EmptyFile
    /\ rd = ReaderInit
    /\ call = [p \in {1} |-> CallIdle]
    /\ lock = 0
    /\ cache = <<>>
    /\ hist = NoHist
    /\ op = NoOp
    /\ st = NoStack

Next ==
    \/ WriteMeta
    \/ OpenBlock
    \/ \E t \in TileIds : AppendTile(t)
    \/ AppendPanic
    \/ CloseBlock
    \/ EndTileData
    \/ WriteRoot
    \/ DeltaOverflow
    \/ WriteLeaves
    \/ WriteHeader
    \/ SinkError
    \/ OpenReader
    \/ IterNext
    \/ Step(1)
    \/ IterCollect
    \/ IterEnd
    \/ \E t \in 0 .. MaxTileId + 1 : Request(1, t)
    \/ Return(1)

Spec == Init /\ [][Next]_vars

(***************************************************************************)
(* SpecReader: concurrent get_tile_data calls on an opened container whose *)
(* directory tree is drawn from a bounded set.  A decoded directory has    *)
(* non-decreasing tile ids, the ids being sums of unsigned deltas.         *)
(***************************************************************************)
\* bytes of a compressed leaf directory with one entry
LeafLen == CompressedLen(<<EntryV3(0, 0, 0, 0)>>)

\* the tile data of the drawn containers
ContainerTiles == <<7, 8>>

\* data entries: in the tile data, of length 0, behind the tile data
DataEntries ==
    {EntryV3(t, r[1], r[2], n) :
        t \in 0 .. 1, n \in 1 .. 2,
        r \in {<<0, 1>>, <<1, 0>>, <<Len(ContainerTiles), 1>>}}

\* leaf pointers: to the first leaf, to the second leaf, of length 0, to a
\* range that holds no directory
LeafPointers ==
    {EntryV3(t, r[1], r[2], 0) :
        t \in 0 .. 1,
        r \in {<<0, LeafLen>>, <<LeafLen, LeafLen>>, <<0, 0>>, <<1, LeafLen>>}}

Entries == DataEntries \cup LeafPointers

\* directories of at most two entries, tile ids increasing
Directories ==
    {<<>>} \cup {<<e>> : e \in Entries}
           \cup {d \in Entries \X Entries : d[1].tile_id < d[2].tile_id}

\* leaf directories: one entry for tile 0
LeafDirectories == {<<e>> : e \in {g \in Entries : g.tile_id = 0 /\ g.run_length < 2}}

LeafAt(offset, ok, dir) == [offset |-> offset, length |-> LeafLen, ok |-> ok, dir |-> dir]

\* roots of three data entries with runs of one or two tiles, tile ids
\* non-decreasing
RunDirectories ==
    {<<EntryV3(i[1], 0, 1, n[1]), EntryV3(i[2], 1, 1, n[2]), EntryV3(i[3], 0, 1, n[3])>> :
        i \in {j \in (0 .. MaxLookupId + 1) \X (0 .. MaxLookupId + 1)
                                            \X (0 .. MaxLookupId + 1) :
                  j[1] <= j[2] /\ j[2] <= j[3]},
        n \in (1 .. 2) \X (1 .. 2) \X (1 .. 2)}

\* either any root over two fixed leaves (a data leaf, an undecodable leaf), or
\* a root pointing to the first leaf over any two leaves
Trees ==
    {[root |-> r,
      leaves |-> {LeafAt(0, TRUE, <<EntryV3(0, 0, 1, 1)>>), LeafAt(LeafLen, FALSE, <<>>)}] :
        r \in Directories \cup RunDirectories}
    \cup
    {[root |-> <<EntryV3(0, 0, LeafLen, 0)>>,
      leaves |-> {LeafAt(0, TRUE, a), LeafAt(LeafLen, b # <<>>, b)}] :
        a \in LeafDirectories, b \in LeafDirectories \cup {<<>>}}

Container(tree) ==
    LET rootAt == ByteRange(HeaderLen, CompressedLen(tree.root))
        meta == ByteRange(RootReserve, 1)
        leavesAt == ByteRange(RootReserve + 1, 2 * LeafLen)
        tilesAt == RootReserve + 1 + 2 * LeafLen
    IN [meta |-> meta, tilesAt |-> tilesAt, tiles |-> ContainerTiles,
        rootAt |-> rootAt, root |-> tree.root,
        leavesAt |-> leavesAt, leaves |-> tree.leaves,
        hasHeader |-> TRUE,
        header |-> [HeaderV3 EXCEPT !.root_dir = rootAt, !.metadata = meta,
                                    !.leaf_dirs = leavesAt,
                                    !.tile_data = ByteRange(tilesAt, Len(ContainerTiles))],
        log |-> <<>>]

InitReader ==
    /\ source = << >>
    /\ metaLen = 1
    /\ w = [WriterInit EXCEPT !.pc = "none"]
    /\ \E tree \in Trees :
          /\ file = Container(tree)
          /\ rd = [ReaderInit EXCEPT !.pc = "ready", !.header = Container(tree).header,
                                     !.root = tree.root]
    /\ call = [p \in Callers |-> CallIdle]
    /\ lock = 0
    /\ cache = <<>>
    /\ hist = NoHist
    /\ op = NoOp
    /\ st = NoStack

NextReader ==
    \/ \E p \in Callers, t \in 0 .. MaxLookupId : Request(p, t)
    \/ \E p \in Callers : Step(p)

SpecReader == InitReader /\ [][NextReader]_vars


(***************************************************************************)
(* from_stacked: Operation::get_stream.                                    *)
(***************************************************************************)
\* the bbox asked for: it lies across the border of two 32-tile grid cells
RequestBBox == [x_min |-> 29, x_max |-> 32, y_min |-> 0, y_max |-> 0]

\* a bbox that meets four grid cells, two in each direction
CornerBBox == [x_min |-> 31, x_max |-> 32, y_min |-> 31, y_max |-> 32]

RequestBBoxes == {RequestBBox, CornerBBox}

EmptyBBox == [x_min |-> 1, x_max |-> 0, y_min |-> 1, y_max |-> 0]

Coord(x, y) == [x |-> x, y |-> y]

CoordsOf(bbox) ==
    {Coord(x, y) : x \in bbox.x_min .. bbox.x_max, y \in bbox.y_min .. bbox.y_max}

\* TileBBox::is_empty
is_empty(bbox) == bbox.x_min > bbox.x_max \/ bbox.y_min > bbox.y_max

\* TileBBox::include_coord
include_coord(bbox, c) ==
    IF is_empty(bbox)
    THEN [x_min |-> c.x, x_max |-> c.x, y_min |-> c.y, y_max |-> c.y]
    ELSE [x_min |-> Min(bbox.x_min, c.x), x_max |-> Max(bbox.x_max, c.x),
          y_min |-> Min(bbox.y_min, c.y), y_max |-> Max(bbox.y_max, c.y)]

RECURSIVE IncludeAll(_, _)
IncludeAll(bbox, cs) ==
    IF cs = {} THEN bbox
    ELSE LET c == CHOOSE c \in cs : TRUE
         IN IncludeAll(include_coord(bbox, c), cs \ {c})

\* the part of the bbox in the grid cell (gx, gy)
Cell(bbox, size, gx, gy) ==
    [x_min |-> Max(bbox.x_min, gx * size), x_max |-> Min(bbox.x_max, gx * size + size - 1),
     y_min |-> Max(bbox.y_min, gy * size), y_max |-> Min(bbox.y_max, gy * size + size - 1)]

\* TileBBox::iter_bbox_grid: the grid cells the bbox meets, row by row
RECURSIVE GridFrom(_, _, _, _)
GridFrom(bbox, size, gx, gy) ==
    IF gy > bbox.y_max \div size THEN <<>>
    ELSE IF gx > bbox.x_max \div size
    THEN GridFrom(bbox, size, bbox.x_min \div size, gy + 1)
    ELSE <<Cell(bbox, size, gx, gy)>> \o GridFrom(bbox, size, gx + 1, gy)

iter_bbox_grid(bbox, size) ==
    IF is_empty(bbox) THEN <<>>
    ELSE GridFrom(bbox, size, bbox.x_min \div size, bbox.y_min \div size)

\* the coordinates of a bbox, row by row
RECURSIVE CoordSeq(_)
CoordSeq(cs) ==
    IF cs = {} THEN <<>>
    ELSE LET m == CHOOSE a \in cs :
                     \A b \in cs : a.y < b.y \/ (a.y = b.y /\ a.x <= b.x)
         IN <<m>> \o CoordSeq(cs \ {m})

NoTile == [some |-> FALSE, src |-> 0, compression |-> "none"]

\* the tile source k has for a coordinate it covers
SourceTile(k) ==
    [some |-> TRUE, src |-> k,
     compression |-> IF k = 1 THEN "gzip" ELSE "uncompressed"]

\* a streamed tile replaces what its slot holds
OverlayAlways(slot, tile, compression) ==
    [tile EXCEPT !.compression = compression]

\* lines 155-162: a streamed tile goes into its slot if the slot is empty
Overlay(slot, tile, compression) ==
    IF ~slot.some THEN [tile EXCEPT !.compression = compression] ELSE slot

\* the bbox of all the coordinates of the block
bbox_block(tiles) == IncludeAll(EmptyBBox, DOMAIN tiles)

\* lines 143-148: the bbox of the coordinates whose slot is empty
bbox_left(tiles) ==
    IncludeAll(EmptyBBox, {c \in DOMAIN tiles : ~tiles[c].some})

\* the sources: each the set of coordinates of the request it has a tile for
StackedSources(bbox) == [1 .. NumSources -> SUBSET CoordsOf(bbox)]

NoTiles == [c \in {} |-> NoTile]

\* the operation: its sources and the order of the traversal it declares, and
\* the bbox get_stream is called with
StackedInit(sources, order, bbox) ==
    [pc |-> "start", sources |-> sources, order |-> order, bbox |-> bbox, blocks |-> <<>>, block |-> EmptyBBox,
     tiles |-> NoTiles, k |-> 0, asked |-> <<>>, out |-> <<>>]

\* line 136
GetStream ==
    /\ st.pc = "start"
    /\ st' = [st EXCEPT !.pc = "block",
                        !.blocks = iter_bbox_grid(st.bbox, GridSize)]
    /\ UNCHANGED <<source, metaLen, w, file, rd, call, lock, cache, hist, op>>

\* line 140
BeginBlock ==
    /\ st.pc = "block"
    /\ st.blocks # <<>>
    /\ st' = [st EXCEPT !.pc = "source",
                        !.block = Head(st.blocks),
                        !.tiles = [c \in CoordsOf(Head(st.blocks)) |-> NoTile],
                        !.k = 1]
    /\ UNCHANGED <<source, metaLen, w, file, rd, call, lock, cache, hist, op>>

\* lines 149-151: nothing is left for this source
SkipSource ==
    /\ st.pc = "source"
    /\ st.k <= Len(st.sources)
    /\ is_empty(bbox_left(st.tiles))
    /\ st' = [st EXCEPT !.k = @ + 1]
    /\ UNCHANGED <<source, metaLen, w, file, rd, call, lock, cache, hist, op>>

\* lines 153-163: the source's stream for the bbox left is overlaid
AskSource ==
    /\ st.pc = "source"
    /\ st.k <= Len(st.sources)
    /\ ~is_empty(bbox_left(st.tiles))
    /\ LET left == bbox_left(st.tiles)
           stream == st.sources[st.k] \cap CoordsOf(left)
       IN st' = [st EXCEPT
                   !.k = @ + 1,
                   !.asked = Append(@, [k |-> st.k, bbox |-> left,
                                        missing |-> {c \in DOMAIN st.tiles :
                                                        ~st.tiles[c].some}]),
                   !.tiles = [c \in DOMAIN st.tiles |->
                                IF c \in stream
                                THEN Overlay(st.tiles[c], SourceTile(st.k),
                                             SourceTile(1).compression)
                                ELSE st.tiles[c]]]
    /\ UNCHANGED <<source, metaLen, w, file, rd, call, lock, cache, hist, op>>

\* lines 165-169: the filled slots of the block are emitted
EmitBlock ==
    /\ st.pc = "source"
    /\ st.k > Len(st.sources)
    /\ LET filled == CoordSeq({c \in DOMAIN st.tiles : st.tiles[c].some})
       IN st' = [st EXCEPT
                   !.pc = "block",
                   !.blocks = Tail(@),
                   !.out = @ \o [i \in 1 .. Len(filled) |->
                                    [coord |-> filled[i], tile |-> st.tiles[filled[i]]]]]
    /\ UNCHANGED <<source, metaLen, w, file, rd, call, lock, cache, hist, op>>

\* the stream of streams has ended
EndStream ==
    /\ st.pc = "block"
    /\ st.blocks = <<>>
    /\ st' = [st EXCEPT !.pc = "done"]
    /\ UNCHANGED <<source, metaLen, w, file, rd, call, lock, cache, hist, op>>

InitStacked ==
    /\ source = << >>
    /\ metaLen = 1
    /\ w = [WriterInit EXCEPT !.pc = "none"]
    /\ file = EmptyFile
    /\ rd = ReaderInit
    /\ call = [p \in {1} |-> CallIdle]
    /\ lock = 0
    /\ cache = <<>>
    /\ hist = NoHist
    /\ op = NoOp
    /\ \E bbox \in RequestBBoxes, order \in {"AnyOrder", "DepthFirst", "PMTiles"} :
          \E sources \in StackedSources(bbox) : st = StackedInit(sources, order, bbox)

NextStacked ==
    \/ GetStream
    \/ BeginBlock
    \/ SkipSource
    \/ AskSource
    \/ EmitBlock
    \/ EndStream

SpecStacked == InitStacked /\ [][NextStacked]_vars


(***************************************************************************)
(* EntriesV3 as bytes: serialise, compress, decompress, deserialise.       *)
(***************************************************************************)
\* the other variables of a specification that uses op alone
rest == <<source, metaLen, w, file, rd, call, lock, cache, hist, st>>

Quiet ==
    /\ source = << >>
    /\ metaLen = 1
    /\ w = [WriterInit EXCEPT !.pc = "none"]
    /\ file = EmptyFile
    /\ rd = ReaderInit
    /\ call = [p \in {1} |-> CallIdle]
    /\ lock = 0
    /\ cache = <<>>
    /\ hist = NoHist
    /\ st = NoStack

\* an unsigned LEB128 varint: seven bits a byte, the low bits first, the high
\* bit set on every byte but the last
RECURSIVE varint(_)
varint(n) == IF n < 128 THEN <<n>> ELSE <<128 + (n % 128)>> \o varint(n \div 128)

\* read one varint at position pos: [ok, value, pos]
RECURSIVE read_varint(_, _, _, _)
read_varint(buf, pos, scale, acc) ==
    IF pos > Len(buf) THEN [ok |-> FALSE, value |-> 0, pos |-> pos]
    ELSE IF buf[pos] < 128
         THEN [ok |-> TRUE, value |-> acc + buf[pos] * scale, pos |-> pos + 1]
         ELSE read_varint(buf, pos + 1, scale * 128, acc + (buf[pos] - 128) * scale)

\* read k varints from position pos: [ok, values, pos]
RECURSIVE read_varints(_, _, _)
read_varints(buf, pos, k) ==
    IF k = 0 THEN [ok |-> TRUE, values |-> <<>>, pos |-> pos]
    ELSE LET v == read_varint(buf, pos, 1, 0)
             r == read_varints(buf, v.pos, k - 1)
         IN IF v.ok /\ r.ok
            THEN [ok |-> TRUE, values |-> <<v.value>> \o r.values, pos |-> r.pos]
            ELSE [ok |-> FALSE, values |-> <<>>, pos |-> pos]

RECURSIVE Flatten(_)
Flatten(ss) == IF ss = <<>> THEN <<>> ELSE Head(ss) \o Flatten(Tail(ss))

\* step 2: the tile id of the first entry, then the differences
TileIdDelta(entries, i) ==
    IF i = 1 THEN entries[1].tile_id ELSE entries[i].tile_id - entries[i - 1].tile_id

\* the offset itself: neither the code for a run nor the added one
OffsetCodePlain(entries, i) ==
    IF entries[i].length = 0 THEN 0 ELSE entries[i].offset

\* step 5: 0 for an entry of length 0, 0 for an entry that starts where the
\* previous entry ends, else the offset plus one
OffsetCode(entries, i) ==
    IF entries[i].length = 0 THEN 0
    ELSE IF i > 1 /\ entries[i].offset = entries[i - 1].offset + entries[i - 1].length
    THEN 0
    ELSE entries[i].offset + 1

\* steps 1 to 5
serialize(entries) ==
    LET n == Len(entries)
        column(f(_)) == Flatten([i \in 1 .. n |-> varint(f(i))])
        ids(i) == TileIdDelta(entries, i)
        runs(i) == entries[i].run_length
        lens(i) == entries[i].length
        offs(i) == OffsetCode(entries, i)
    IN varint(n) \o column(ids) \o column(runs) \o column(lens) \o column(offs)

\* the inverse of step 5, entry by entry
RECURSIVE DecodeEntries(_, _, _, _, _, _)
DecodeEntries(ids, runs, lens, offs, i, done) ==
    IF i > Len(ids) THEN done
    ELSE LET prev == IF i = 1 THEN EntryV3(0, 0, 0, 0) ELSE done[i - 1]
             offset == IF lens[i] = 0 THEN 0
                       ELSE IF offs[i] = 0 THEN prev.offset + prev.length
                       ELSE offs[i] - 1
         IN DecodeEntries(ids, runs, lens, offs, i + 1,
                Append(done, EntryV3(prev.tile_id + ids[i], offset, lens[i], runs[i])))

deserialize(buf) ==
    LET n == read_varint(buf, 1, 1, 0)
        ids == read_varints(buf, n.pos, n.value)
        runs == read_varints(buf, ids.pos, n.value)
        lens == read_varints(buf, runs.pos, n.value)
        offs == read_varints(buf, lens.pos, n.value)
    IN IF n.ok /\ ids.ok /\ runs.ok /\ lens.ok /\ offs.ok /\ offs.pos = Len(buf) + 1
       THEN Ok(DecodeEntries(ids.values, runs.values, lens.values, offs.values, 1, <<>>))
       ELSE Err

RECURSIVE ByteSum(_)
ByteSum(buf) == IF buf = <<>> THEN 0 ELSE Head(buf) + ByteSum(Tail(buf))

\* internal_compression, as a frame: a magic byte, the bytes, a checksum
compress(buf) == <<31>> \o buf \o <<ByteSum(buf) % 256>>

decompress(blob) ==
    IF Len(blob) >= 2 /\ blob[1] = 31
       /\ blob[Len(blob)] = ByteSum(SubSeq(blob, 2, Len(blob) - 1)) % 256
    THEN Ok(SubSeq(blob, 2, Len(blob) - 1))
    ELSE Err

\* entries lists of the round trip: at most MaxEntries entries, tile ids
\* non-decreasing; 130 takes two bytes as a varint
MaxEntries == 2

EntryValues ==
    {EntryV3(t, o, l, n) : t \in {0, 1, 130}, o \in {0, 1, 5}, l \in {0, 1, 4}, n \in {0, 1}}

EntryLists ==
    {es \in UNION {[1 .. k -> EntryValues] : k \in 0 .. MaxEntries} : IsSorted(es)}

EntriesCall(entries) ==
    [pc |-> "serialize", entries |-> entries, bytes |-> <<>>, blob |-> <<>>,
     back |-> Err, result |-> Err]

Serialize ==
    /\ op.pc = "serialize"
    /\ op' = [op EXCEPT !.pc = "compress", !.bytes = serialize(op.entries)]
    /\ UNCHANGED rest

Compress ==
    /\ op.pc = "compress"
    /\ op' = [op EXCEPT !.pc = "decompress", !.blob = compress(op.bytes)]
    /\ UNCHANGED rest

Decompress ==
    /\ op.pc = "decompress"
    /\ op' = [op EXCEPT !.pc = "deserialize", !.back = decompress(op.blob)]
    /\ UNCHANGED rest

Deserialize ==
    /\ op.pc = "deserialize"
    /\ op' = [op EXCEPT !.pc = "done",
                        !.result = IF op.back.ok THEN deserialize(op.back.value) ELSE Err]
    /\ UNCHANGED rest

InitEntries == Quiet /\ \E entries \in EntryLists : op = EntriesCall(entries)

NextEntries == Serialize \/ Compress \/ Decompress \/ Deserialize

SpecEntries == InitEntries /\ [][NextEntries]_vars

(***************************************************************************)
(* Traversal: an order and a range of block sizes, and its intersection.   *)
(***************************************************************************)

\* the exponent of the default maximum size: TraversalSize::new_default
\* reaches 1 << 20
DefaultMaxBits == 20

\* block sizes are powers of two; the sizes the operations of this repository
\* declare (1, 4, 16, 256) and the default maximum
TraversalSizes == {Pow2(b) : b \in {0, 2, 4, 8, DefaultMaxBits}}

TraversalOrders == {"AnyOrder", "DepthFirst", "PMTiles"}

\* Traversal::new(order, min_size, max_size): fails when min_size > max_size
TraversalNew(order, min_size, max_size) ==
    IF min_size > max_size
    THEN Err
    ELSE Ok([order |-> order, min_size |-> min_size, max_size |-> max_size])

\* every traversal that Traversal::new returns
Traversals ==
    {TraversalNew(o, lo, hi).value :
        <<o, lo, hi>> \in {t \in TraversalOrders \X TraversalSizes \X TraversalSizes :
                              TraversalNew(t[1], t[2], t[3]).ok}}

\* Traversal::ANY = new_any(): AnyOrder with the default size range
ANY == [order |-> "AnyOrder", min_size |-> 1, max_size |-> Pow2(DefaultMaxBits)]

\* TraversalOrder::intersect: AnyOrder adopts the other order, equal orders
\* stay, two different orders fail
order_intersect(self, other) ==
    IF self = "AnyOrder" THEN Ok(other)
    ELSE IF other = "AnyOrder" \/ other = self THEN Ok(self)
    ELSE Err

\* the size range of self, whatever the other range is
size_keep(self, other) == Ok([min_size |-> self.min_size, max_size |-> self.max_size])

\* TraversalSize::intersect: the overlap of the two ranges, an error when
\* they do not overlap
size_intersect(self, other) ==
    LET lo == Max(self.min_size, other.min_size)
        hi == Min(self.max_size, other.max_size)
    IN IF lo > hi THEN Err ELSE Ok([min_size |-> lo, max_size |-> hi])

\* the order of self and the overlap of the sizes
intersect_keep_order(self, other) ==
    LET s == size_intersect(self, other)
    IN IF ~s.ok THEN Err
       ELSE Ok([order |-> self.order, min_size |-> s.value.min_size,
                max_size |-> s.value.max_size])

\* Traversal::intersect: the order first, then the size, each with `?`; the
\* value is self after both succeeded
intersect(self, other) ==
    LET o == order_intersect(self.order, other.order)
        s == size_intersect(self, other)
    IN IF ~o.ok THEN Err
       ELSE IF ~s.ok THEN Err
       ELSE Ok([order |-> o.value, min_size |-> s.value.min_size,
                max_size |-> s.value.max_size])

\* Traversal::intersect on `&mut self` (main.rs 74-78): self after the call.
\* The order is assigned by line 75 before line 76 tests the sizes, so a
\* failure of the sizes leaves the new order in self.
intersect_in_place(self, other) ==
    LET o == order_intersect(self.order, other.order)
        s == size_intersect(self, other)
    IN IF ~o.ok THEN self
       ELSE IF ~s.ok THEN [self EXCEPT !.order = o.value]
       ELSE [order |-> o.value, min_size |-> s.value.min_size,
             max_size |-> s.value.max_size]

\* Traversal::get_intersected: intersect on a clone of self
get_intersected(self, other) == intersect(self, other)

\* get_intersected on a result: the `?` of the caller hands an error on
AndThen(res, other) == IF res.ok THEN get_intersected(res.value, other) ELSE Err

\* a.get_intersected(b), b.get_intersected(a), b.get_intersected(c) and
\* a.get_intersected(ANY)
IntersectPairs ==
    /\ op.pc = "pairs"
    /\ op' = [op EXCEPT !.pc = "nested",
                        !.ab = get_intersected(op.a, op.b),
                        !.ba = get_intersected(op.b, op.a),
                        !.bc = get_intersected(op.b, op.c),
                        !.a_any = get_intersected(op.a, ANY),
                        !.a_after = intersect_in_place(op.a, op.b)]
    /\ UNCHANGED rest

\* (a.get_intersected(b)).get_intersected(c) and a.get_intersected(b.get_intersected(c))
IntersectNested ==
    /\ op.pc = "nested"
    /\ op' = [op EXCEPT !.pc = "done",
                        !.ab_c = AndThen(op.ab, op.c),
                        !.a_bc = IF op.bc.ok THEN get_intersected(op.a, op.bc.value)
                                 ELSE Err]
    /\ UNCHANGED rest

InitTraversal ==
    /\ Quiet
    /\ \E a \in Traversals, b \in Traversals, c \in Traversals :
          op = [pc |-> "pairs", a |-> a, b |-> b, c |-> c, ab |-> Err, ba |-> Err,
                bc |-> Err, a_any |-> Err, ab_c |-> Err, a_bc |-> Err,
                a_after |-> a]

NextTraversal == IntersectPairs \/ IntersectNested

SpecTraversal == InitTraversal /\ [][NextTraversal]_vars

(***************************************************************************)
(* from_stacked: Operation::new.                                           *)
(***************************************************************************)
MaxNewSources == 3

Fail(msg) == [ok |-> FALSE, value |-> msg]

\* what a source shows to Operation::new: its tile format, its traversal and
\* whether TileJSON::merge accepts its tilejson
NewSources ==
    [tile_format : {"png", "mvt"},
     merges : BOOLEAN,
     traversal : {ANY, TraversalNew("PMTiles", 4, 256).value,
                  TraversalNew("DepthFirst", 1, 16).value,
                  TraversalNew("PMTiles", 1, 1).value}]

NewSourceLists == UNION {[1 .. n -> NewSources] : n \in 0 .. MaxNewSources}

OperationNew(sources) ==
    [pc |-> "new", sources |-> sources, i |-> 0, tile_format |-> "none",
     traversal |-> ANY, result |-> Fail("running")]

\* the loop body without its ensure! on the tile format
VisitSourceAnyFormat(o) ==
    LET src == o.sources[o.i]
        t == intersect(o.traversal, src.traversal)
    IN IF ~src.merges THEN [o EXCEPT !.pc = "done", !.result = Fail("tilejson")]
       ELSE IF ~t.ok THEN [o EXCEPT !.pc = "done", !.result = Fail("traversal")]
       ELSE [o EXCEPT !.i = @ + 1, !.traversal = t.value]

\* lines 87-99, one pass of the loop: tilejson.merge(..)?, then
\* traversal.intersect(..)?, then the ensure! on the tile format
VisitSource(o) ==
    LET src == o.sources[o.i]
        t == intersect(o.traversal, src.traversal)
    IN IF ~src.merges THEN [o EXCEPT !.pc = "done", !.result = Fail("tilejson")]
       ELSE IF ~t.ok THEN [o EXCEPT !.pc = "done", !.result = Fail("traversal")]
       ELSE IF src.tile_format # o.tile_format
       THEN [o EXCEPT !.pc = "done", !.traversal = t.value,
                      !.result = Fail("all sources must have the same tile format")]
       ELSE [o EXCEPT !.i = @ + 1, !.traversal = t.value]

\* lines 77-85
NewBegin ==
    /\ op.pc = "new"
    /\ op' = IF Len(op.sources) > 1
             THEN [op EXCEPT !.pc = "loop", !.i = 1,
                             !.tile_format = op.sources[1].tile_format,
                             !.traversal = ANY]
             ELSE [op EXCEPT !.pc = "done",
                             !.result = Fail("must have at least two sources")]
    /\ UNCHANGED rest

NewVisitSource ==
    /\ op.pc = "loop"
    /\ op.i <= Len(op.sources)
    /\ op' = VisitSource(op)
    /\ UNCHANGED rest

\* lines 101-109
NewFinish ==
    /\ op.pc = "loop"
    /\ op.i > Len(op.sources)
    /\ op' = [op EXCEPT !.pc = "done",
                        !.result = Ok([tile_format |-> op.tile_format,
                                       traversal |-> op.traversal])]
    /\ UNCHANGED rest

InitNew == Quiet /\ \E sources \in NewSourceLists : op = OperationNew(sources)

NextNew == NewBegin \/ NewVisitSource \/ NewFinish

SpecNew == InitNew /\ [][NextNew]_vars

(***************************************************************************)
(* from_vectortiles_merged: build, get_vector_data, get_vector_stream.     *)
(***************************************************************************)
MaxMergedSources == 2

\* the bbox asked for: two coordinates of one 32-tile grid block
MergedBBox == [x_min |-> 0, x_max |-> 1, y_min |-> 0, y_max |-> 0]

VectorTileLayer(name, features) == [name |-> name, features |-> features]

NoVectorTile == [some |-> FALSE, layers |-> <<>>]
VectorTile(layers) == [some |-> TRUE, layers |-> layers]

\* the tile source k holds at a coordinate: none, one layer, or two layers;
\* its features carry the number of the source
SourceVectorTile(k, shape) ==
    IF shape = "none" THEN NoVectorTile
    ELSE IF shape = "a" THEN VectorTile(<<VectorTileLayer("a", <<k>>)>>)
    ELSE VectorTile(<<VectorTileLayer("b", <<k + 10>>), VectorTileLayer("a", <<k, k>>)>>)

\* what is chosen for a source: tile format, whether TileJSON::merge accepts
\* the tilejson, and the shape of what it holds at each coordinate of the bbox
MergedShapes ==
    [tile_format : {"mvt", "png"}, merges : BOOLEAN,
     shapes : {f \in [CoordsOf(MergedBBox) -> {"none", "a", "ab"}] :
                  f[Coord(1, 0)] # "ab"}]

\* the sources of these shapes
MergedSources(s) ==
    [k \in 1 .. Len(s) |->
        [tile_format |-> s[k].tile_format, merges |-> s[k].merges,
         tiles |-> [c \in CoordsOf(MergedBBox) |-> SourceVectorTile(k, s[k].shapes[c])]]]

\* VectorTileLayer::add_from_layer: the features of the other layer follow
add_from_layer(layer, new_layer) ==
    [layer EXCEPT !.features = @ \o new_layer.features]

\* lines 34-38 when the map keeps the layer it has and drops the new one
KeepLayer(layers, new_layer) ==
    IF \E i \in 1 .. Len(layers) : layers[i].name = new_layer.name
    THEN layers
    ELSE Append(layers, new_layer)

\* lines 34-38: the layer joins the one of its name, or is inserted
AddLayer(layers, new_layer) ==
    IF \E i \in 1 .. Len(layers) : layers[i].name = new_layer.name
    THEN [i \in 1 .. Len(layers) |->
             IF layers[i].name = new_layer.name
             THEN add_from_layer(layers[i], new_layer)
             ELSE layers[i]]
    ELSE Append(layers, new_layer)

RECURSIVE AddLayers(_, _)
AddLayers(layers, new_layers) ==
    IF new_layers = <<>> THEN layers
    ELSE AddLayers(AddLayer(layers, Head(new_layers)), Tail(new_layers))

\* merge_vector_tiles: the layers of all the tiles, in the order of the
\* tiles, put into a map by name; into_values() yields them in any order
merge_vector_tiles(tiles) ==
    LET layers == AddLayers(<<>>, Flatten([i \in 1 .. Len(tiles) |-> tiles[i].layers]))
        values == {layers[i] : i \in 1 .. Len(layers)}
    IN {VectorTile(order) : order \in {o \in [1 .. Len(layers) -> values] :
                                          {o[i] : i \in 1 .. Len(layers)} = values}}

\* lines 126-136, 150-164: the tiles the sources hold at the coordinate, in
\* the order of the sources
VectorTilesAt(sources, c) ==
    LET IsSome(t) == t.some
    IN SelectSeq([k \in 1 .. Len(sources) |-> sources[k].tiles[c]], IsSome)

\* lines 138-142, 170-178
MergedAt(sources, c) ==
    IF VectorTilesAt(sources, c) = <<>> THEN {NoVectorTile}
    ELSE merge_vector_tiles(VectorTilesAt(sources, c))

MergedBuild(sources) ==
    [pc |-> "build", sources |-> sources, i |-> 0, tile_format |-> "none",
     result |-> Fail("running"), coord |-> Coord(0, 0), data |-> NoVectorTile,
     out |-> <<>>]

\* lines 59-65
MergedBegin ==
    /\ op.pc = "build"
    /\ op' = IF Len(op.sources) > 1
             THEN [op EXCEPT !.pc = "loop", !.i = 1,
                             !.tile_format = op.sources[1].tile_format]
             ELSE [op EXCEPT !.pc = "failed",
                             !.result = Fail("must have at least two sources")]
    /\ UNCHANGED rest

\* lines 67-73, one pass of the loop: the ensure! reads tile_format, the
\* format of the first source
MergedVisitSource ==
    /\ op.pc = "loop"
    /\ op.i <= Len(op.sources)
    /\ op' = IF ~op.sources[op.i].merges
             THEN [op EXCEPT !.pc = "failed", !.result = Fail("tilejson")]
             ELSE IF op.tile_format # "mvt"
             THEN [op EXCEPT !.pc = "failed",
                             !.result = Fail("all sources must be vector tiles")]
             ELSE [op EXCEPT !.i = @ + 1]
    /\ UNCHANGED rest

\* lines 75-81
MergedFinish ==
    /\ op.pc = "loop"
    /\ op.i > Len(op.sources)
    /\ op' = [op EXCEPT !.pc = "built", !.result = Ok(op.tile_format)]
    /\ UNCHANGED rest

\* get_vector_data(coord) on an operation whose sources hold vector tiles
GetVectorData ==
    /\ op.pc = "built"
    /\ \A k \in 1 .. Len(op.sources) : op.sources[k].tile_format = "mvt"
    /\ \E c \in CoordsOf(MergedBBox) : \E tile \in MergedAt(op.sources, c) :
          op' = [op EXCEPT !.pc = "data", !.coord = c, !.data = tile]
    /\ UNCHANGED rest

\* get_vector_stream(bbox): each coordinate that has tiles, in index order,
\* with the merged tile
GetVectorStream ==
    /\ op.pc = "data"
    /\ LET cs == CoordSeq({c \in CoordsOf(MergedBBox) :
                              VectorTilesAt(op.sources, c) # <<>>})
       IN \E f \in [1 .. Len(cs) -> UNION {MergedAt(op.sources, c) : c \in CoordsOf(MergedBBox)}] :
             /\ \A i \in 1 .. Len(cs) : f[i] \in MergedAt(op.sources, cs[i])
             /\ op' = [op EXCEPT !.pc = "done",
                                 !.out = [i \in 1 .. Len(cs) |->
                                             [coord |-> cs[i], tile |-> f[i]]]]
    /\ UNCHANGED rest

InitMerged ==
    /\ Quiet
    /\ \E n \in 0 .. MaxMergedSources : \E s \in [1 .. n -> MergedShapes] :
          op = MergedBuild(MergedSources(s))

NextMerged ==
    \/ MergedBegin
    \/ MergedVisitSource
    \/ MergedFinish
    \/ GetVectorData
    \/ GetVectorStream

SpecMerged == InitMerged /\ [][NextMerged]_vars

(***************************************************************************)
(* filter_zoom over a source that has a tile at every coordinate.          *)
(***************************************************************************)
MaxZoom == 3

None == [some |-> FALSE, value |-> 0]
Some(v) == [some |-> TRUE, value |-> v]

\* Args: min and max, each an Option<u8>
ZoomArgs == [min : {None} \cup {Some(z) : z \in 0 .. MaxZoom},
             max : {None} \cup {Some(z) : z \in 0 .. MaxZoom}]

TileCoord3(x, y, z) == [x |-> x, y |-> y, level |-> z]

\* the corners of every level
ZoomCoords ==
    UNION {{TileCoord3(x, y, z) : x \in {0, Pow2(z) - 1}, y \in {0, Pow2(z) - 1}} :
           z \in 0 .. MaxZoom}

\* TileBBox::new_full(level)
new_full(z) == [x_min |-> 0, x_max |-> Pow2(z) - 1, y_min |-> 0, y_max |-> Pow2(z) - 1]

\* the pyramid of the source: every level full
FullPyramid == [z \in 0 .. MaxZoom |-> new_full(z)]

\* TileBBoxPyramid::set_zoom_min, set_zoom_max: the levels below, above are emptied
set_zoom_min(pyramid, min) == [z \in DOMAIN pyramid |-> IF z < min THEN EmptyBBox ELSE pyramid[z]]
set_zoom_max(pyramid, max) == [z \in DOMAIN pyramid |-> IF z > max THEN EmptyBBox ELSE pyramid[z]]

\* TileBBoxPyramid::contains_coord
contains_coord(pyramid, c) ==
    /\ pyramid[c.level].x_min <= c.x /\ c.x <= pyramid[c.level].x_max
    /\ pyramid[c.level].y_min <= c.y /\ c.y <= pyramid[c.level].y_max

\* TileBBox::intersect_pyramid: the bbox cut to the pyramid's bbox of its level
intersect_pyramid(bbox, z, pyramid) ==
    LET b == [x_min |-> Max(bbox.x_min, pyramid[z].x_min),
              x_max |-> Min(bbox.x_max, pyramid[z].x_max),
              y_min |-> Max(bbox.y_min, pyramid[z].y_min),
              y_max |-> Min(bbox.y_max, pyramid[z].y_max)]
    IN IF is_empty(b) THEN EmptyBBox ELSE b

\* the source is asked for every coordinate
get_tile_data_unfiltered(o, coord) ==
    [o EXCEPT !.pc = "data", !.coord = coord, !.data = Some(coord),
              !.queried = Append(@, coord)]

\* lines 67-73: the source is asked only for a coordinate of the pyramid
get_tile_data(o, coord) ==
    IF contains_coord(o.pyramid, coord)
    THEN [o EXCEPT !.pc = "data", !.coord = coord, !.data = Some(coord),
                   !.queried = Append(@, coord)]
    ELSE [o EXCEPT !.pc = "data", !.coord = coord, !.data = None]

FilterZoomCall(args) ==
    [pc |-> "build", min |-> args.min, max |-> args.max, pyramid |-> FullPyramid,
     coord |-> TileCoord3(0, 0, 0), data |-> None, queried |-> <<>>,
     level |-> 0, asked |-> EmptyBBox]

\* lines 33-53
FilterZoomBuild ==
    /\ op.pc = "build"
    /\ LET p1 == IF op.min.some THEN set_zoom_min(FullPyramid, op.min.value)
                 ELSE FullPyramid
           p2 == IF op.max.some THEN set_zoom_max(p1, op.max.value) ELSE p1
       IN op' = [op EXCEPT !.pc = "ready", !.pyramid = p2]
    /\ UNCHANGED rest

GetTileData ==
    /\ op.pc = "ready"
    /\ \E coord \in ZoomCoords : op' = get_tile_data(op, coord)
    /\ UNCHANGED rest

\* lines 75-78, for the full bbox of a level: the source's stream for the
\* bbox cut to the pyramid
GetTileStream ==
    /\ op.pc = "data"
    /\ \E z \in 0 .. MaxZoom :
          op' = [op EXCEPT !.pc = "done", !.level = z,
                           !.asked = intersect_pyramid(new_full(z), z, op.pyramid)]
    /\ UNCHANGED rest

InitZoom == Quiet /\ \E args \in ZoomArgs : op = FilterZoomCall(args)

NextZoom == FilterZoomBuild \/ GetTileData \/ GetTileStream

SpecZoom == InitZoom /\ [][NextZoom]_vars

(***************************************************************************)
(* raster_format: parse_quality.                                           *)
(***************************************************************************)
MaxTextLen == 4

\* the last zoom level: the result has one quality for each of 0 .. 31
LastZoom == 31

DigitChars == <<"0", "1", "2", "3", "4", "5", "6", "7", "8", "9">>

Chars(text) == {text[i] : i \in 1 .. Len(text)}

\* the texts: every text of a few characters, and the texts of the tests
QualityTexts ==
    UNION {[1 .. n -> {"0", "1", "2", "3", ",", ":", " ", "-"}] : n \in 0 .. MaxTextLen}
    \cup {<<"8", "0">>,
          <<"8", "0", ",", "7", "0", ",", "1", "4", ":", "5", "0", ",", "1", "5", ":", "2", "0">>,
          <<" ", ",", "8", "0", " ", ",", " ", ",", " ">>,
          <<"5", ":", "1", "0", "1">>}

\* str::split(','): the parts between the commas, at least one
RECURSIVE split(_, _)
split(text, part) ==
    IF text = <<>> THEN <<part>>
    ELSE IF Head(text) = "," THEN <<part>> \o split(Tail(text), <<>>)
    ELSE split(Tail(text), Append(part, Head(text)))

\* str::trim: without the spaces at both ends
RECURSIVE trim(_)
trim(s) ==
    IF s = <<>> THEN s
    ELSE IF Head(s) = " " THEN trim(Tail(s))
    ELSE IF s[Len(s)] = " " THEN trim(SubSeq(s, 1, Len(s) - 1))
    ELSE s

\* str::find(':'): the first index of a colon, 0 for None
find(s) ==
    IF ":" \in Chars(s) THEN CHOOSE i \in 1 .. Len(s) : s[i] = ":" /\ ":" \notin Chars(SubSeq(s, 1, i - 1))
    ELSE 0

\* the value of a run of decimal digits
RECURSIVE Decimal(_, _)
Decimal(s, acc) ==
    IF s = <<>> THEN acc
    ELSE Decimal(Tail(s), 10 * acc + ((CHOOSE d \in 1 .. 10 : DigitChars[d] = Head(s)) - 1))

IsDigits(s) == s # <<>> /\ Chars(s) \subseteq {DigitChars[d] : d \in 1 .. 10}

\* str::parse::<i32>: an optional sign and digits
parse_i32(s) ==
    IF s # <<>> /\ Head(s) = "-" /\ IsDigits(Tail(s)) THEN Ok(0 - Decimal(Tail(s), 0))
    ELSE IF IsDigits(s) /\ Decimal(s, 0) <= 2147483647 THEN Ok(Decimal(s, 0))
    ELSE Err

\* str::parse::<u8>: digits, at most 255
parse_u8(s) ==
    IF IsDigits(s) /\ Decimal(s, 0) <= 255 THEN Ok(Decimal(s, 0)) ELSE Err

\* lines 135-137: result[z] = Some(quality_val) for z in zoom..32; the index
\* `z as usize` of a negative z is out of bounds and panics
Assign(o, zoom, quality_val) ==
    IF zoom < 0
    THEN [o EXCEPT !.pc = "panic", !.zoom = zoom]
    ELSE [o EXCEPT !.zoom = zoom, !.parts = Tail(@),
                   !.result = [z \in 0 .. LastZoom |->
                                  IF z >= zoom THEN Some(quality_val) ELSE @[z]]]

\* lines 123-137: one pass of the loop
parse_part(o) ==
    LET part == trim(Head(o.parts))
        idx == find(part)
        zoom == IF idx > 0 THEN parse_i32(trim(SubSeq(part, 1, idx - 1)))
                ELSE Ok(o.zoom + 1)
        quality_val == parse_u8(trim(SubSeq(part, idx + 1, Len(part))))
    IN IF part = <<>> THEN [o EXCEPT !.zoom = @ + 1, !.parts = Tail(@)]
       ELSE IF ~zoom.ok THEN [o EXCEPT !.pc = "err", !.msg = "parse"]
       ELSE IF zoom.value > LastZoom
       THEN [o EXCEPT !.pc = "err", !.msg = "Zoom level must be between 0 and 31"]
       ELSE IF ~quality_val.ok THEN [o EXCEPT !.pc = "err", !.msg = "parse"]
       ELSE IF quality_val.value > 100
       THEN [o EXCEPT !.pc = "err", !.msg = "Quality value must be between 0 and 100"]
       ELSE Assign(o, zoom.value, quality_val.value)

\* lines 119-122
ParseQualityCall(given, text) ==
    [pc |-> "loop", given |-> given, text |-> text,
     parts |-> IF given THEN split(text, <<>>) ELSE <<>>,
     zoom |-> 0 - 1, result |-> [z \in 0 .. LastZoom |-> None], msg |-> ""]

ParsePart ==
    /\ op.pc = "loop"
    /\ op.parts # <<>>
    /\ op' = parse_part(op)
    /\ UNCHANGED rest

\* line 140
ParseReturn ==
    /\ op.pc = "loop"
    /\ op.parts = <<>>
    /\ op' = [op EXCEPT !.pc = "ok"]
    /\ UNCHANGED rest

InitQuality ==
    /\ Quiet
    /\ \/ op = ParseQualityCall(FALSE, <<>>)
       \/ \E text \in QualityTexts : op = ParseQualityCall(TRUE, text)

NextQuality == ParsePart \/ ParseReturn

SpecQuality == InitQuality /\ [][NextQuality]_vars

(***************************************************************************)
(* ValueReaderFile (value_reader_file.rs): a reader over a file of `len`   *)
(* bytes with a read position.                                             *)
(***************************************************************************)
\* the width of a u64, scaled down
U64Bits == 4

U64Max == Pow2(U64Bits) - 1

MaxFileLen == 3

FileBytes == {1, 2}

\* lines 66-73: ValueReaderFile::new, the position at the start of the file
ValueReaderFile(bytes) == [bytes |-> bytes, pos |-> 0]

\* no sub-reader has been made
NoSub == [open |-> FALSE, bytes |-> <<>>, pos |-> 0]

\* set_position that accepts the end of the file
set_position_upto(self, position) ==
    IF position > Len(self.bytes)
    THEN [res |-> "err", self |-> self, sub |-> NoSub, value |-> 0]
    ELSE [res |-> "ok", self |-> [self EXCEPT !.pos = position],
          sub |-> NoSub, value |-> 0]

\* lines 122-128
set_position(self, position) ==
    IF position >= Len(self.bytes)
    THEN [res |-> "err", self |-> self, sub |-> NoSub, value |-> 0]
    ELSE [res |-> "ok", self |-> [self EXCEPT !.pos = position],
          sub |-> NoSub, value |-> 0]

\* read_u8 over get_reader (lines 110-112): read_exact of one byte, which
\* fails at the end of the file
read_u8(self) ==
    IF self.pos < Len(self.bytes)
    THEN [res |-> "ok", self |-> [self EXCEPT !.pos = @ + 1],
          sub |-> NoSub, value |-> self.bytes[self.pos + 1]]
    ELSE [res |-> "err", self |-> self, sub |-> NoSub, value |-> 0]

\* lines 130-144: `start + length` is a u64 sum; when it overflows the call
\* panics (overflow check, or the allocation of `length` bytes after the
\* wrapped sum passed the test of line 136)
get_sub_reader(self, length) ==
    LET start == self.pos
        end == start + length
    IN IF end > U64Max
       THEN [res |-> "panic", self |-> self, sub |-> NoSub, value |-> 0]
       ELSE IF end > Len(self.bytes)
       THEN [res |-> "err", self |-> self, sub |-> NoSub, value |-> 0]
       ELSE [res |-> "ok", self |-> [self EXCEPT !.pos = end],
             sub |-> [open |-> TRUE, pos |-> 0,
                      bytes |-> SubSeq(self.bytes, start + 1, end)],
             value |-> 0]

\* the state after a call: the reader, the sub-reader if one was made, and
\* the call with the position before it and its result
AfterCall(name, arg, r) ==
    [pc |-> IF r.res = "panic" THEN "panic" ELSE "file",
     self |-> r.self,
     sub |-> IF r.sub.open THEN r.sub ELSE op.sub,
     last |-> [name |-> name, arg |-> arg, before |-> op.self.pos,
               res |-> r.res, value |-> r.value]]

SetPosition ==
    /\ op.pc = "file"
    /\ \E position \in 0 .. MaxFileLen + 1 :
          op' = AfterCall("set_position", position, set_position(op.self, position))
    /\ UNCHANGED rest

ReadU8 ==
    /\ op.pc = "file"
    /\ op' = AfterCall("read_u8", 0, read_u8(op.self))
    /\ UNCHANGED rest

GetSubReader ==
    /\ op.pc = "file"
    /\ \E length \in (0 .. MaxFileLen + 1) \cup {U64Max - 1, U64Max} :
          op' = AfterCall("get_sub_reader", length, get_sub_reader(op.self, length))
    /\ UNCHANGED rest

\* a read_u8 of the sub-reader, which has its own position
SubReadU8 ==
    /\ op.pc = "file"
    /\ op.sub.open
    /\ LET r == read_u8(op.sub)
       IN op' = [op EXCEPT !.sub = [op.sub EXCEPT !.pos = r.self.pos],
                           !.last = [name |-> "sub.read_u8", arg |-> 0,
                                     before |-> op.sub.pos,
                                     res |-> r.res, value |-> r.value]]
    /\ UNCHANGED rest

InitFile ==
    /\ Quiet
    /\ \E n \in 0 .. MaxFileLen : \E bytes \in [1 .. n -> FileBytes] :
          op = [pc |-> "file", self |-> ValueReaderFile(bytes), sub |-> NoSub,
                last |-> [name |-> "new", arg |-> 0, before |-> 0,
                          res |-> "ok", value |-> 0]]

NextFile == SetPosition \/ ReadU8 \/ GetSubReader \/ SubReadU8

SpecFile == InitFile /\ [][NextFile]_vars

(***************************************************************************)
(* PMTilesReader::calc_bbox_pyramid (reader.rs 123-158): the recursion of  *)
(* parse_directories, one frame of `stack` per call that has not returned. *)
(***************************************************************************)
\* the frames the model follows; a container without a cycle of leaf pointers
\* needs at most one frame per directory
ScanCeiling == 5

ScanLeaves == 3

\* the leaf pointer to the k-th leaf directory
PointerTo(k) == EntryV3(0, (k - 1) * LeafLen, LeafLen, 0)

\* a leaf directory: one tile, or one pointer to a leaf directory
ScanLeafDirs == {<<EntryV3(0, 0, 1, 1)>>} \cup {<<PointerTo(k)>> : k \in 1 .. ScanLeaves}

ScanRoots == {<<PointerTo(1)>>, <<EntryV3(0, 1, 1, 1), PointerTo(1)>>,
              <<EntryV3(0, 0, 0, 1), PointerTo(2)>>}

ScanContainer(root, leaves) ==
    LET c == Container([root |-> root,
                        leaves |-> {LeafAt((k - 1) * LeafLen, TRUE, leaves[k]) :
                                       k \in 1 .. ScanLeaves}])
        leavesAt == ByteRange(c.leavesAt.offset, ScanLeaves * LeafLen)
    IN [c EXCEPT !.leavesAt = leavesAt, !.header.leaf_dirs = leavesAt]

Frame(leaf, range, dir) == [leaf |-> leaf, range |-> range, dir |-> dir, i |-> 1]

\* line 157: parse_directories(self, &self.root_bytes_uncompressed)
ScanBegin ==
    /\ op.pc = "closed"
    /\ op' = [op EXCEPT !.pc = "scan",
                        !.stack = <<Frame(FALSE, file.rootAt, file.root)>>]
    /\ UNCHANGED rest

\* lines 135-152: one entry of the directory of the innermost call; a leaf
\* pointer is read and parse_directories is called on it (line 150), with no
\* limit of the depth and no record of the directories already entered
ScanEntry ==
    /\ op.pc = "scan"
    /\ LET n == Len(op.stack)
           top == op.stack[n]
           e == top.dir[top.i]
           next == [op EXCEPT !.stack[n].i = @ + 1]
           range == ByteRange(e.offset, e.length)
           blob == ReadLeaf(file.header, range)
       IN /\ top.i <= Len(top.dir)
          /\ op' = IF e.length = 0 THEN next
                   ELSE IF e.run_length > 0
                   THEN [next EXCEPT !.ids = @ \cup (e.tile_id .. (e.tile_id + e.run_length - 1))]
                   ELSE IF ~blob.ok THEN [op EXCEPT !.pc = "failed"]
                   ELSE IF n >= ScanCeiling THEN [op EXCEPT !.pc = "deep"]
                   ELSE [next EXCEPT !.stack = Append(@, Frame(TRUE, range, blob.value)),
                                     !.visited = @ + 1]
    /\ UNCHANGED rest

\* line 154: Ok(()) of the innermost call; the outermost one ends the scan
ScanReturn ==
    /\ op.pc = "scan"
    /\ LET n == Len(op.stack)
       IN /\ op.stack[n].i > Len(op.stack[n].dir)
          /\ op' = [op EXCEPT !.stack = SubSeq(@, 1, n - 1),
                              !.pc = IF n = 1 THEN "open" ELSE "scan"]
    /\ UNCHANGED rest

InitScan ==
    /\ source = << >>
    /\ metaLen = 1
    /\ w = [WriterInit EXCEPT !.pc = "none"]
    /\ \E root \in ScanRoots, leaves \in [1 .. ScanLeaves -> ScanLeafDirs] :
          file = ScanContainer(root, leaves)
    /\ rd = ReaderInit
    /\ call = [p \in {1} |-> CallIdle]
    /\ lock = 0
    /\ cache = <<>>
    /\ hist = NoHist
    /\ st = NoStack
    /\ op = [pc |-> "closed", stack |-> <<>>, ids |-> {}, visited |-> 1]

NextScan == ScanBegin \/ ScanEntry \/ ScanReturn

SpecScan == InitScan /\ [][NextScan]_vars

(***************************************************************************)
(* from_overlayed (from_overlayed.rs): the tile of the first source that   *)
(* has one, by coordinate and by bbox.                                     *)
(***************************************************************************)
MaxOverlayed == 2

\* the tile compressions of the sources, first source first
OverlayedCompressions == {<<"gzip", "gzip", "gzip">>, <<"gzip", "uncompressed", "gzip">>,
                          <<"uncompressed", "gzip", "gzip">>}

\* the bytes of a tile: the data under a compression
TileBlob(data, compression) == [data |-> data, compression |-> compression]

\* utils::recompress: the bytes are decompressed and compressed again, and
\* are left alone when the two compressions are the same
recompress(blob, input, output) ==
    IF input = output THEN blob ELSE TileBlob(blob.data, output)

\* a source whose point and stream results agree: get_tile_data
SourceData(src, coord) ==
    IF coord \in src.coords THEN Some(TileBlob(src.data, src.compression)) ELSE None

\* a source whose point and stream results agree: the coordinates its
\* get_tile_stream(bbox) yields
SourceStream(src, bbox) == src.coords \cap CoordsOf(bbox)

\* lines 60-76: the compression of the first source, Uncompressed when a
\* source has another one
overlayed_compression(sources) ==
    IF \A k \in 1 .. Len(sources) : sources[k].compression = sources[1].compression
    THEN sources[1].compression
    ELSE "uncompressed"

\* lines 91-102: the first source in list order that has the tile
RECURSIVE overlayed_get_tile_data(_, _, _)
overlayed_get_tile_data(o, coord, k) ==
    IF k > Len(o.sources) THEN None
    ELSE LET result == SourceData(o.sources[k], coord)
         IN IF result.some
            THEN Some(recompress(result.value, o.sources[k].compression, o.compression))
            ELSE overlayed_get_tile_data(o, coord, k + 1)

\* a streamed tile replaces what its slot holds
overlayed_replace(slot, tile) == tile

\* lines 132-135: a streamed tile goes into its slot if the slot is empty
overlayed_fill(slot, tile) == IF ~slot.some THEN tile ELSE slot

\* lines 114-137: the sources in list order, each asked for the bbox of the
\* empty slots
RECURSIVE overlayed_block(_, _, _)
overlayed_block(o, tiles, k) ==
    IF k > Len(o.sources) THEN tiles
    ELSE LET left == bbox_left(tiles)
             src == o.sources[k]
             stream == SourceStream(src, left)
             blob == recompress(SourceData(src, CHOOSE c \in stream : TRUE).value,
                                src.compression, o.compression)
         IN IF is_empty(left) \/ stream = {} THEN overlayed_block(o, tiles, k + 1)
            ELSE overlayed_block(o,
                    [c \in DOMAIN tiles |->
                        IF c \in stream THEN overlayed_fill(tiles[c], Some(blob))
                        ELSE tiles[c]],
                    k + 1)

\* line 139: the filled slots of a block in index order
overlayed_tiles(o, bbox) ==
    LET tiles == overlayed_block(o, [c \in CoordsOf(bbox) |-> None], 1)
        filled == CoordSeq({c \in DOMAIN tiles : tiles[c].some})
    IN [i \in 1 .. Len(filled) |-> [coord |-> filled[i], blob |-> tiles[filled[i]].value]]

\* lines 105-141: the blocks of iter_bbox_grid(32) one after the other
RECURSIVE overlayed_blocks(_, _)
overlayed_blocks(o, bboxes) ==
    IF bboxes = <<>> THEN <<>>
    ELSE overlayed_tiles(o, Head(bboxes)) \o overlayed_blocks(o, Tail(bboxes))

overlayed_get_tile_stream(o, bbox) == overlayed_blocks(o, iter_bbox_grid(bbox, GridSize))

\* lines 48-83: build; at least two sources
OverlayedBuild ==
    /\ op.pc = "new"
    /\ op' = IF Len(op.sources) > 1
             THEN [op EXCEPT !.pc = "built", !.compression = overlayed_compression(op.sources)]
             ELSE [op EXCEPT !.pc = "err"]
    /\ UNCHANGED rest

\* get_tile_data for the next coordinate of the bbox, row by row
OverlayedGetTileData ==
    /\ op.pc = "built"
    /\ \E c \in CoordsOf(op.bbox) \ DOMAIN op.points :
          /\ c = Head(CoordSeq(CoordsOf(op.bbox) \ DOMAIN op.points))
          /\ op' = [op EXCEPT !.points =
                       [d \in DOMAIN op.points \cup {c} |->
                           IF d = c THEN overlayed_get_tile_data(op, c, 1)
                                    ELSE op.points[d]]]
    /\ UNCHANGED rest

\* get_tile_stream(bbox), collected
OverlayedGetTileStream ==
    /\ op.pc = "built"
    /\ ~op.streamed
    /\ op' = [op EXCEPT !.streamed = TRUE,
                        !.stream = overlayed_get_tile_stream(op, op.bbox)]
    /\ UNCHANGED rest

InitOverlayed ==
    /\ Quiet
    /\ \E bbox \in RequestBBoxes, n \in 1 .. MaxOverlayed, comp \in OverlayedCompressions :
          \E coords \in [1 .. n -> SUBSET CoordsOf(bbox)] :
             op = [pc |-> "new", bbox |-> bbox, compression |-> "none",
                   sources |-> [k \in 1 .. n |->
                                   [coords |-> coords[k], data |-> k,
                                    compression |-> comp[((k - 1) % 3) + 1]]],
                   points |-> [c \in {} |-> None], streamed |-> FALSE, stream |-> <<>>]

NextOverlayed == OverlayedBuild \/ OverlayedGetTileData \/ OverlayedGetTileStream

SpecOverlayed == InitOverlayed /\ [][NextOverlayed]_vars

(***************************************************************************)
(* Traversal::traverse_pyramid (main.rs 97-102) with the order DepthFirst. *)
(***************************************************************************)
\* the finest level of the drawn pyramids
MaxLevel == 2

LevelBlock(level, bbox) ==
    [level |-> level, x_min |-> bbox.x_min, x_max |-> bbox.x_max,
     y_min |-> bbox.y_min, y_max |-> bbox.y_max]

\* the bboxes a level of a drawn pyramid can have: all tiles, the first
\* tile, the last tile, none
LevelBBoxes(level) ==
    LET n == Pow2(level) - 1
    IN {[x_min |-> 0, x_max |-> n, y_min |-> 0, y_max |-> n],
        [x_min |-> 0, x_max |-> 0, y_min |-> 0, y_max |-> 0],
        [x_min |-> n, x_max |-> n, y_min |-> n, y_max |-> n],
        EmptyBBox}

\* the pyramid of the test at main.rs 185-205: levels 4 to 6 of the geo bbox
\* [-170, -60, 160, 70]
TestPyramid ==
    [level \in 4 .. 6 |->
        IF level = 4 THEN [x_min |-> 0, x_max |-> 15, y_min |-> 3, y_max |-> 11]
        ELSE IF level = 5 THEN [x_min |-> 0, x_max |-> 30, y_min |-> 7, y_max |-> 22]
        ELSE [x_min |-> 1, x_max |-> 60, y_min |-> 14, y_max |-> 45]]

\* the grid cell of a block
CellX(b, size) == b.x_min \div size
CellY(b, size) == b.y_min \div size

\* the quadrants that lead from the whole world to the block's grid cell, one
\* per level: x fastest, then y
QuadDigits(b, size) ==
    [i \in 1 .. b.level |->
        ((CellX(b, size) \div Pow2(b.level - i)) % 2)
            + 2 * ((CellY(b, size) \div Pow2(b.level - i)) % 2)]

\* a block before the blocks inside its area
parent_first_key(b, size) == QuadDigits(b, size) \o <<-1>>

\* TraversalOrder::DepthFirst in sort_bboxes: the recursive quadtree, a block
\* after the blocks inside its area
depth_first_key(b, size) == QuadDigits(b, size) \o <<4>>

\* lexicographic order of two keys
RECURSIVE KeyLess(_, _)
KeyLess(a, b) ==
    IF a = <<>> THEN b # <<>>
    ELSE IF b = <<>> THEN FALSE
    ELSE IF Head(a) # Head(b) THEN Head(a) < Head(b)
    ELSE KeyLess(Tail(a), Tail(b))

\* sort_bboxes for DepthFirst: the blocks by their key
RECURSIVE sort_bboxes(_, _)
sort_bboxes(blocks, size) ==
    IF blocks = {} THEN <<>>
    ELSE LET m == CHOOSE a \in blocks :
                     \A b \in blocks \ {a} :
                        KeyLess(depth_first_key(a, size), depth_first_key(b, size))
         IN <<m>> \o sort_bboxes(blocks \ {m}, size)

\* line 99: the blocks of iter_bbox_grid(size) of every level
PyramidBlocks(pyramid, size) ==
    UNION {{LevelBlock(level, iter_bbox_grid(pyramid[level], size)[i]) :
               i \in 1 .. Len(iter_bbox_grid(pyramid[level], size))} :
           level \in DOMAIN pyramid}

\* lines 98-99
TraverseCollect ==
    /\ op.pc = "traverse"
    /\ op' = [op EXCEPT !.pc = "collected",
                        !.bboxes = PyramidBlocks(op.pyramid, op.size)]
    /\ UNCHANGED rest

\* lines 100-101
TraverseSort ==
    /\ op.pc = "collected"
    /\ op' = [op EXCEPT !.pc = "sorted", !.out = sort_bboxes(op.bboxes, op.size)]
    /\ UNCHANGED rest

InitTraverse ==
    /\ Quiet
    /\ \/ op = [pc |-> "traverse", size |-> 16, pyramid |-> TestPyramid,
                bboxes |-> {}, out |-> <<>>]
       \/ \E size \in {1, 2}, lo \in 0 .. MaxLevel, hi \in 0 .. MaxLevel :
             /\ lo <= hi
             /\ \E pyramid \in [lo .. hi -> UNION {LevelBBoxes(l) : l \in lo .. hi}] :
                   /\ \A l \in lo .. hi : pyramid[l] \in LevelBBoxes(l)
                   /\ op = [pc |-> "traverse", size |-> size, pyramid |-> pyramid,
                            bboxes |-> {}, out |-> <<>>]

NextTraverse == TraverseCollect \/ TraverseSort

SpecTraverse == InitTraverse /\ [][NextTraverse]_vars

(***************************************************************************)
(* Properties.                                                             *)
(***************************************************************************)
\* the (coord, bytes) pairs of the source
SourceSet == {[id |-> t, bytes |-> TileBytes(t)] : t \in DOMAIN source}

\* C1: writing a source and then opening the file and iterating all tiles
\* yields exactly the source's (coord, bytes) pairs.
C1_RoundTrip == rd.pc = "ready" => rd.got = SourceSet

\* a leaf pointer is what find_tile returned for the directory last examined
FoundLeaf(c) == c.found.found /\ c.found.entry.run_length = 0

\* C2 as stated: a call examines at most three directories, and when the
\* third directory examined yields a leaf pointer the call ends in an error.
C2_ThirdLeafPointerFails ==
    \A p \in DOMAIN call :
        /\ call[p].depth <= 3
        /\ (call[p].pc = "done" /\ call[p].depth = 3 /\ FoundLeaf(call[p]))
              => IsErr(call[p].res)

\* C2 amended: a call examines at most three directories, and when the third
\* directory examined yields a leaf pointer of non-zero length the call ends
\* in an error; a leaf pointer of length 0 makes it return None.
C2_ThirdLeafPointer ==
    \A p \in DOMAIN call :
        /\ call[p].depth <= 3
        /\ (call[p].pc = "done" /\ call[p].depth = 3 /\ FoundLeaf(call[p]))
              => IF call[p].found.entry.length > 0
                 THEN IsErr(call[p].res)
                 ELSE call[p].res = "none"

C2_Witness ==
    \E p \in DOMAIN call :
        /\ call[p].pc = "done" /\ call[p].depth = 3 /\ FoundLeaf(call[p])
        /\ call[p].found.entry.length > 0
        /\ call[p].res = "notfound"

\* the sources that have a tile for the coordinate
Having(c) == {k \in 1 .. Len(st.sources) : c \in st.sources[k]}

\* C3: get_stream emits, for every coordinate of the bbox, exactly one tile
\* if a source has a tile there and none otherwise, and the tile emitted is
\* the one of the first source in list order that has the coordinate.
C3_FirstSourceWins ==
    st.pc = "done" =>
        \A c \in CoordsOf(st.bbox) :
            LET hits == {i \in 1 .. Len(st.out) : st.out[i].coord = c}
            IN IF Having(c) = {} THEN hits = {}
               ELSE /\ Cardinality(hits) = 1
                    /\ \A i \in hits :
                          /\ st.out[i].tile.src \in Having(c)
                          /\ \A k \in Having(c) : st.out[i].tile.src <= k

C3_Witness ==
    /\ st.pc = "done"
    /\ \E c \in CoordsOf(st.bbox) : Having(c) = {1, 2}
    /\ \E c \in CoordsOf(st.bbox) : Having(c) = {2}
    /\ \E c \in CoordsOf(st.bbox) : Having(c) = {}

Filling(p) == call[p].pc = "filling"

\* C4 as stated: at most one fill runs at a time for a leaf byte range, and
\* no fill runs for a range whose fill has completed before.
C4_FillOnce ==
    /\ \A p, q \in DOMAIN call :
          (Filling(p) /\ Filling(q) /\ call[p].key = call[q].key) => p = q
    /\ \A p \in DOMAIN call : Filling(p) => call[p].key \notin hist.filled

\* C4 amended: at most one fill runs at a time (for any range: the closure
\* runs under the cache's mutex), and no fill runs for a range that is in
\* the cache; a range the byte budget has evicted is filled again.
C4_FillExclusive ==
    /\ \A p, q \in DOMAIN call : (Filling(p) /\ Filling(q)) => p = q
    /\ \A p \in DOMAIN call :
          Filling(p) => (lock = p /\ call[p].key \notin CacheKeys(cache))
    /\ CacheKeys(cache) \subseteq hist.filled

C4_Witness ==
    /\ hist.hits # {}
    /\ \E p, q \in DOMAIN call :
          /\ Filling(p)
          /\ call[q].pc = "lock"
          /\ call[q].key = call[p].key

\* C5: on a file the writer produced no get_tile_data runs out of directory
\* levels: the depth-exhausted error is never reached, and no call examines
\* more than three directories.
C5_DepthNotExhausted ==
    \A p \in DOMAIN call : call[p].res # "notfound" /\ call[p].depth <= 3

C5_Witness ==
    /\ w.pc = "done"
    /\ \E p \in DOMAIN call :
          call[p].pc = "done" /\ call[p].depth = 2 /\ call[p].res = "data"

\* C6: the tiles are appended, and their entries pushed, in non-decreasing
\* order of tile id, whatever the order of the source's stream.
C6_HilbertOrder == IsSorted(w.entries)

\* the position of the last write of a segment in the order of the writes
Written(name) == {i \in 1 .. Len(file.log) : file.log[i] = name}

\* C7: after a successful write the header at offset 0 has clustered = true,
\* tile_entries_count = number of entries, addressed_tiles_count = number of
\* tiles addressed, and the header is written last, after tile data, root
\* and leaves.
C7_Header ==
    /\ file.hasHeader => w.pc = "done"
    /\ w.pc = "done" =>
          /\ file.hasHeader
          /\ file.header.clustered
          /\ file.header.tile_entries_count = Len(w.entries)
          /\ file.header.tile_entries_count = Cardinality(DOMAIN source)
          /\ file.header.addressed_tiles_count = Cardinality(DOMAIN source)
          /\ Written("header") = {Len(file.log)}
          /\ Written("root") # {} /\ Written("leaves") # {}
          /\ Cardinality(Written("tile")) = Cardinality(DOMAIN source)

C7_Witness == w.pc = "done" /\ Len(w.entries) >= 3 /\ file.header.clustered

\* C8: the segments lie in the order header | root_dir | metadata |
\* tile_data | leaf_dirs: the root starts at 127 and ends at or before
\* 16384, the metadata starts at 16384, the tile data where the metadata
\* ends, the leaves where the tile data ends; the header records the ranges
\* that were written.
C8_Layout ==
    w.pc = "done" =>
        LET h == file.header
            ranges == <<ByteRange(0, HeaderLen), h.root_dir, h.metadata,
                        h.tile_data, h.leaf_dirs>>
        IN /\ \A i, j \in 1 .. Len(ranges) :
                 i < j => ranges[i].offset + ranges[i].length <= ranges[j].offset
           /\ h.root_dir.offset = HeaderLen
           /\ h.root_dir.offset + h.root_dir.length <= RootReserve
           /\ h.metadata.offset = RootReserve
           /\ h.metadata.length = metaLen
           /\ h.tile_data.offset = h.metadata.offset + h.metadata.length
           /\ h.leaf_dirs.offset = h.tile_data.offset + h.tile_data.length
           /\ file.rootAt = h.root_dir /\ file.meta = h.metadata
           /\ file.leavesAt = h.leaf_dirs
           /\ file.tilesAt = h.tile_data.offset
           /\ Len(file.tiles) = h.tile_data.length

C8_Witness == w.pc = "done" /\ file.leaves # {} /\ file.tiles # <<>>

\* C9: packing the entries with the budget 16384 - header length ends with
\* a root whose compressed size is at most the budget, or with RootOverflow;
\* a root larger than the budget is never written.
C9_Packing ==
    /\ w.pc \in {"leaves", "header", "done"} =>
          /\ w.directory.ok
          /\ w.directory.root = file.root
          /\ CompressedLen(file.root) <= RootReserve - HeaderLen
    /\ w.error = "RootOverflow" =>
          /\ w.pc = "err"
          /\ CompressedLen(w.entries) > RootReserve - HeaderLen
          /\ file.root = <<>>

C9_Witness ==
    /\ w.pc = "leaves"
    /\ Len(w.directory.leaves) > 1
    /\ Len(w.directory.root) < Len(w.entries)

\* a linear scan: the last entry with tile_id <= t, then the same tests
RECURSIVE LastAtMost(_, _, _, _)
LastAtMost(entries, t, i, best) ==
    IF i > Len(entries) THEN best
    ELSE LastAtMost(entries, t, i + 1, IF entries[i].tile_id <= t THEN i ELSE best)

LinearScan(entries, t) ==
    LET n == LastAtMost(entries, t, 1, 0)
    IN IF n = 0 THEN NotFound
       ELSE IF entries[n].run_length > 0 /\ t < entries[n].tile_id + entries[n].run_length
       THEN Found(entries[n])
       ELSE IF entries[n].run_length = 0 THEN Found(entries[n])
       ELSE NotFound

\* C10: on a directory with non-decreasing tile ids find_tile(t) returns the
\* entry with the largest tile_id <= t as a data pointer if run_length > 0
\* and t < tile_id + run_length, as a leaf pointer if run_length = 0, and
\* nothing otherwise: it agrees with a linear scan.
C10_FindTile ==
    \A p \in DOMAIN call :
        (call[p].depth > 0 /\ IsSorted(call[p].seen))
            => call[p].found = LinearScan(call[p].seen, call[p].tile)

C10_Witness ==
    \E p \in DOMAIN call :
        /\ Len(call[p].seen) = 3
        /\ call[p].found.found
        /\ call[p].found.entry.run_length = 2
        /\ call[p].tile = call[p].found.entry.tile_id + 1
        /\ call[p].found.entry = call[p].seen[2]
        /\ call[p].seen[3].tile_id > call[p].tile

\* C11 as stated: serialise, compress, decompress, deserialise gives back
\* every entries list with non-decreasing tile ids, entry by entry with the
\* same tile_id, offset, length and run_length.
C11_RoundTripIdentity ==
    op.pc = "done" => (op.result.ok /\ op.result.value = op.entries)

AllLengthsPositive(entries) == \A i \in 1 .. Len(entries) : entries[i].length > 0

\* C11 amended: the round trip gives back a list of the same length with the
\* same tile_id, length and run_length in every entry, and the same offsets
\* too when no entry of the list has length 0.
C11_RoundTrip ==
    op.pc = "done" =>
        /\ op.result.ok
        /\ Len(op.result.value) = Len(op.entries)
        /\ \A i \in 1 .. Len(op.entries) :
              /\ op.result.value[i].tile_id = op.entries[i].tile_id
              /\ op.result.value[i].length = op.entries[i].length
              /\ op.result.value[i].run_length = op.entries[i].run_length
        /\ AllLengthsPositive(op.entries) => op.result.value = op.entries

C11_Witness ==
    /\ op.pc = "done"
    /\ Len(op.entries) = 2
    /\ AllLengthsPositive(op.entries)
    /\ op.entries[2].tile_id = 130
    /\ op.entries[2].offset # op.entries[1].offset + op.entries[1].length
    /\ op.result.value = op.entries

C13_IntersectTightens ==
    op.pc \in {"nested", "done"} =>
        LET a == op.a
            b == op.b
            lo == IF a.min_size > b.min_size THEN a.min_size ELSE b.min_size
            hi == IF a.max_size < b.max_size THEN a.max_size ELSE b.max_size
            clash == a.order # b.order /\ "AnyOrder" \notin {a.order, b.order}
        IN IF clash \/ lo > hi
           THEN ~op.ab.ok
           ELSE /\ op.ab.ok
                /\ op.ab.value.order = (IF a.order = "AnyOrder" THEN b.order ELSE a.order)
                /\ op.ab.value.min_size = lo
                /\ op.ab.value.max_size = hi

C13_Witness ==
    /\ op.pc = "done"
    /\ op.a = [order |-> "AnyOrder", min_size |-> 1, max_size |-> 16]
    /\ op.b = [order |-> "PMTiles", min_size |-> 4, max_size |-> 256]
    /\ op.ab = Ok([order |-> "PMTiles", min_size |-> 4, max_size |-> 16])

\* C14 as stated: every bbox passed to the get_stream of a source after the
\* first contains only coordinates whose slot is still empty, that is, for
\* which no earlier source delivered a tile.
C14_OnlyMissingAsked ==
    \A i \in 1 .. Len(st.asked) :
        st.asked[i].k > 1 => CoordsOf(st.asked[i].bbox) \subseteq st.asked[i].missing

\* C14: a source is called only when a coordinate of the block is missing,
\* and the bbox passed to it is the smallest bbox that contains every missing
\* coordinate of the block (it can contain coordinates that are not missing).
C14_MissingHullAsked ==
    \A i \in 1 .. Len(st.asked) :
        LET a == st.asked[i]
        IN /\ a.missing # {}
           /\ a.missing \subseteq CoordsOf(a.bbox)
           /\ \E c \in a.missing : c.x = a.bbox.x_min
           /\ \E c \in a.missing : c.x = a.bbox.x_max
           /\ \E c \in a.missing : c.y = a.bbox.y_min
           /\ \E c \in a.missing : c.y = a.bbox.y_max

C14_Witness ==
    /\ st.pc = "done"
    /\ \E i \in 1 .. Len(st.asked) :
          /\ st.asked[i].k = 2
          /\ ~(CoordsOf(st.asked[i].bbox) \subseteq st.asked[i].missing)
    /\ Cardinality({i \in 1 .. Len(st.asked) : st.asked[i].k = 1}) = 2
    /\ Cardinality({i \in 1 .. Len(st.asked) : st.asked[i].k = 2}) = 1

\* the grid block of a coordinate
BlockOf(c) == [x |-> c.x \div GridSize, y |-> c.y \div GridSize]

\* the place of a block in the order a traversal sorts blocks into, at the
\* level whose tiles form two blocks a side: along the Hilbert curve for
\* PMTiles, quadrant by quadrant for DepthFirst, no order for AnyOrder
BlockRank(order, g) ==
    IF order = "PMTiles"
    THEN CHOOSE h \in 0 .. 3 : HilbertDecode(2, 1, h, 0, 0) = g
    ELSE IF order = "DepthFirst" THEN 2 * g.y + g.x
    ELSE 0

\* C15: get_stream emits the 32-tile grid blocks of the bbox in the order of
\* the traversal the operation declares: the tiles of one block come before
\* every tile of the next block, and the blocks follow the traversal order
\* (the Hilbert curve when the declared order is PMTiles).
C15_BlocksInTraversalOrder ==
    st.pc = "done" =>
        \A i \in 1 .. Len(st.out), j \in 1 .. Len(st.out) :
            i < j =>
                /\ BlockRank(st.order, BlockOf(st.out[i].coord))
                      <= BlockRank(st.order, BlockOf(st.out[j].coord))
                /\ \A m \in i .. j :
                      BlockOf(st.out[i].coord) = BlockOf(st.out[j].coord)
                          => BlockOf(st.out[m].coord) = BlockOf(st.out[i].coord)

\* the traversals have an order and a size in common
TraversalsMeet(ts) ==
    /\ Cardinality({t.order : t \in ts} \ {"AnyOrder"}) <= 1
    /\ \A a \in ts, b \in ts : a.min_size <= b.max_size

\* C16: from_stacked's construction fails with "must have at least two
\* sources" for fewer than two sources, fails when the tile format of any
\* source differs from the first source's, and succeeds only for two or more
\* sources of one tile format whose traversals intersect.
C16_NewStacked ==
    op.pc = "done" =>
        LET n == Len(op.sources)
            formats == {op.sources[k].tile_format : k \in 1 .. n}
        IN /\ n < 2 => op.result = Fail("must have at least two sources")
           /\ Cardinality(formats) > 1 => ~op.result.ok
           /\ op.result.ok =>
                 /\ n >= 2
                 /\ Cardinality(formats) = 1
                 /\ TraversalsMeet({op.sources[k].traversal : k \in 1 .. n})

C16_Witness ==
    /\ op.pc = "done"
    /\ Len(op.sources) = 3
    /\ op.sources[2].tile_format = op.sources[1].tile_format
    /\ op.sources[3].tile_format # op.sources[1].tile_format
    /\ op.result = Fail("all sources must have the same tile format")

\* C17: the construction of from_vectortiles_merged fails if any one of its
\* sources, not only the first, has a tile format other than MVT.
C17_AllSourcesMvt ==
    (\E k \in 1 .. Len(op.sources) : op.sources[k].tile_format # "mvt")
        => op.pc \notin {"built", "data", "done"}

\* the features of the layers of this name in the tiles the sources hold at
\* the coordinate, source after source
FeaturesAt(c, name) ==
    Flatten([k \in 1 .. Len(op.sources) |->
                Flatten([i \in 1 .. Len(op.sources[k].tiles[c].layers) |->
                            IF op.sources[k].tiles[c].layers[i].name = name
                            THEN op.sources[k].tiles[c].layers[i].features
                            ELSE <<>>])])

\* the tile is the merge of what the sources hold at the coordinate: one
\* layer for each layer name, with the features of that name in source order
IsMergeAt(tile, c) ==
    LET names == UNION {{op.sources[k].tiles[c].layers[i].name :
                            i \in 1 .. Len(op.sources[k].tiles[c].layers)} :
                        k \in 1 .. Len(op.sources)}
    IN /\ tile.some
       /\ Len(tile.layers) = Cardinality(names)
       /\ {tile.layers[i].name : i \in 1 .. Len(tile.layers)} = names
       /\ \A i \in 1 .. Len(tile.layers) :
             tile.layers[i].features = FeaturesAt(c, tile.layers[i].name)

HasTileAt(c) == \E k \in 1 .. Len(op.sources) : op.sources[k].tiles[c].some

\* C18: for each coordinate from_vectortiles_merged outputs a tile iff a
\* source has a tile there; the tile has exactly one layer for each layer
\* name of the source tiles, and the features of a layer are those of the
\* layers of that name, concatenated in the order of the source list.
C18_MergedTiles ==
    /\ op.pc \in {"data", "done"} =>
          IF HasTileAt(op.coord) THEN IsMergeAt(op.data, op.coord) ELSE ~op.data.some
    /\ op.pc = "done" =>
          /\ \A c \in CoordsOf(MergedBBox) :
                Cardinality({i \in 1 .. Len(op.out) : op.out[i].coord = c})
                    = IF HasTileAt(c) THEN 1 ELSE 0
          /\ \A i \in 1 .. Len(op.out) : IsMergeAt(op.out[i].tile, op.out[i].coord)

C18_Witness ==
    /\ op.pc = "done"
    /\ Len(op.out) = 1
    /\ op.out[1].coord = op.coord
    /\ op.out[1].tile.layers = <<VectorTileLayer("a", <<1, 1, 2>>), VectorTileLayer("b", <<11>>)>>
    /\ op.data.layers = <<VectorTileLayer("b", <<11>>), VectorTileLayer("a", <<1, 1, 2>>)>>

\* the zoom is within the bounds given; an absent bound does not restrict
Retained(z) ==
    /\ op.min.some => op.min.value <= z
    /\ op.max.some => z <= op.max.value

\* C19: a zoom filter over a source that has every tile returns Some(tile)
\* for a coordinate with min <= z <= max and None for one with z < min or
\* z > max, an absent bound not restricting; for a coordinate outside the
\* retained pyramid the source is not asked.
C19_FilterZoom ==
    /\ op.pc \in {"data", "done"} =>
          IF Retained(op.coord.level)
          THEN op.data.some /\ op.data.value = op.coord /\ op.queried = <<op.coord>>
          ELSE ~op.data.some /\ op.queried = <<>>
    /\ op.pc = "done" =>
          op.asked = IF Retained(op.level) THEN new_full(op.level) ELSE EmptyBBox

C19_Witness ==
    /\ op.pc = "done"
    /\ op.min = Some(1)
    /\ op.max = Some(2)
    /\ op.coord = TileCoord3(7, 7, 3)
    /\ ~op.data.some
    /\ op.queried = <<>>
    /\ op.asked = new_full(2)

\* the entries of the text: the trimmed parts between the commas, each with
\* its explicit zoom (an integer, if it has a colon) and its quality (a
\* natural number) as written
QualityEntries(text) ==
    LET parts == split(text, <<>>)
    IN [i \in 1 .. Len(parts) |->
           LET part == trim(parts[i])
               idx == find(part)
           IN [empty |-> part = <<>>,
               explicit |-> idx > 0,
               z |-> parse_i32(trim(SubSeq(part, 1, idx - 1))),
               q |-> LET t == trim(SubSeq(part, idx + 1, Len(part)))
                     IN IF IsDigits(t) THEN Ok(Decimal(t, 0)) ELSE Err]]

\* the zoom of entry i: its explicit zoom, else one more than the zoom of the
\* entry before it, starting at 0
RECURSIVE EntryZoom(_, _)
EntryZoom(entries, i) ==
    IF entries[i].explicit /\ ~entries[i].empty THEN entries[i].z.value
    ELSE IF i = 1 THEN 0
    ELSE EntryZoom(entries, i - 1) + 1

\* C20: parse_quality gives each comma-separated entry a zoom (its explicit
\* Z, otherwise one more than the zoom of the entry before, starting at 0,
\* empty entries advancing the zoom too) and returns for every zoom 0..31 the
\* quality of the last entry in list order whose zoom is at most that zoom, or
\* None; it fails when an explicit Z is above 31 or a quality above 100.
C20_ParseLaw ==
    (op.pc \in {"ok", "err", "panic"} /\ op.given) =>
        LET entries == QualityEntries(op.text)
            full == {i \in 1 .. Len(entries) : ~entries[i].empty}
            numeric == \A i \in full :
                          /\ entries[i].explicit => entries[i].z.ok
                          /\ entries[i].q.ok
            at(z) == {i \in full : EntryZoom(entries, i) <= z}
        IN numeric =>
              IF \E i \in full : \/ entries[i].explicit /\ entries[i].z.value > LastZoom
                                 \/ entries[i].q.value > 100
              THEN op.pc = "err"
              ELSE /\ op.pc = "ok"
                   /\ \A z \in 0 .. LastZoom :
                         IF at(z) = {} THEN ~op.result[z].some
                         ELSE /\ op.result[z].some
                              /\ \E i \in at(z) :
                                    /\ \A j \in at(z) : j <= i
                                    /\ op.result[z].value = entries[i].q.value

\* C21: when a write or a seek of the sink fails during write_to_writer, the
\* append of a tile's bytes included, write_to_writer returns an Err: it
\* neither panics nor goes on to report success.
C21_SinkErrorReturned == w.error = "io" => w.pc = "err"

\* the read the call's last directory entry asked for has failed: the tile's
\* data range cannot be read, or the leaf directory cannot be read
ReadFailed(c) ==
    /\ c.found.found
    /\ c.found.entry.length > 0
    /\ IF c.found.entry.run_length > 0
       THEN ~ReadData(ByteRange(c.found.entry.offset + rd.header.tile_data.offset,
                                c.found.entry.length)).ok
       ELSE ~ReadLeaf(rd.header, ByteRange(c.found.entry.offset, c.found.entry.length)).ok

\* C22 as stated: when resolving one tile fails after a successful open,
\* get_tile_data reports the tile as missing (None).
C22_ErrorsReportedMissing ==
    \A p \in DOMAIN call :
        (call[p].pc = "done" /\ ReadFailed(call[p])) => call[p].res = "none"

\* C22: when resolving one tile fails after a successful open (a leaf
\* directory or the tile's data range cannot be read), get_tile_data returns
\* the error to its caller; a call whose reads all succeed returns no read
\* error.
C22_ErrorsPropagate ==
    \A p \in DOMAIN call :
        call[p].pc = "done" => (ReadFailed(call[p]) <=> call[p].res = "err")

C22_Witness ==
    /\ rd.pc = "ready"
    /\ \E p \in DOMAIN call :
          /\ call[p].pc = "done"
          /\ call[p].res = "err"
          /\ ReadFailed(call[p])
          /\ call[p].found.entry.run_length > 0

\* C23: when find_tile finds no entry in the directory being examined, root or
\* leaf, or the entry found has length 0, get_tile_data returns None: no
\* error, and no tile data.
C23_NoEntryIsNone ==
    \A p \in DOMAIN call :
        (call[p].pc = "done" /\ call[p].depth > 0
            /\ (~call[p].found.found \/ call[p].found.entry.length = 0))
          => (call[p].res = "none" /\ call[p].blob = <<>>)

C23_Witness ==
    /\ \E p \in DOMAIN call :
          /\ call[p].pc = "done" /\ call[p].depth = 2
          /\ ~call[p].found.found
          /\ call[p].seen # <<>>
          /\ call[p].res = "none"
    /\ \E p \in DOMAIN call :
          /\ call[p].pc = "done" /\ call[p].depth = 1
          /\ call[p].found.found
          /\ call[p].found.entry.length = 0
          /\ call[p].res = "none"

\* C24: set_position(p) fails exactly when p >= len, the end of the file
\* included; a failed call leaves the read position unchanged, and after a
\* successful one the next read starts at byte p.
C24_SetPosition ==
    op.last.name = "set_position" =>
        IF op.last.arg >= Len(op.self.bytes)
        THEN op.last.res = "err" /\ op.self.pos = op.last.before
        ELSE /\ op.last.res = "ok"
             /\ op.self.pos = op.last.arg
             /\ read_u8(op.self).res = "ok"
             /\ read_u8(op.self).value = op.self.bytes[op.last.arg + 1]

C24_Witness ==
    /\ op.last.name = "set_position"
    /\ op.last.arg = Len(op.self.bytes)
    /\ op.last.res = "err"
    /\ op.last.before = 1
    /\ op.self.pos = 1

\* C26 as stated: get_sub_reader(n) at position p fails exactly when
\* p + n > len; on success the sub-reader holds exactly the bytes [p, p + n)
\* and the parent's position is p + n.
C26_SubReader ==
    op.last.name = "get_sub_reader" =>
        IF op.last.before + op.last.arg > Len(op.self.bytes)
        THEN op.last.res = "err" /\ op.self.pos = op.last.before
        ELSE /\ op.last.res = "ok"
             /\ op.sub.bytes = SubSeq(op.self.bytes, op.last.before + 1,
                                      op.last.before + op.last.arg)
             /\ op.sub.pos = 0
             /\ op.self.pos = op.last.before + op.last.arg

\* C27 as stated: when a.intersect(b) returns an error, a is left exactly as
\* it was before the call, its order and its size unchanged.
C27_IntersectAtomic ==
    (op.pc # "pairs" /\ ~intersect(op.a, op.b).ok) => op.a_after = op.a

\* C28 as stated: for every input text parse_quality either returns an error
\* or returns the result having written only to the indices 0..=31; it never
\* panics on an index out of bounds.
C28_NoPanic ==
    /\ op.pc # "panic"
    /\ op.pc = "ok" => DOMAIN op.result = 0 .. LastZoom

\* the directories of the container: the root and the leaves
ScanDirectories == 1 + Cardinality(file.leaves)

\* C29 as stated: the scan of open_reader ends for every container content:
\* it visits finitely many directories, so the recursion is never deeper than
\* the container has directories, also when a leaf directory points to itself
\* or to an ancestor.
C29_ScanTerminates ==
    /\ op.pc # "deep"
    /\ op.pc = "scan" => Len(op.stack) <= ScanDirectories

\* the tiles the collected stream holds for a coordinate
StreamedAt(c) == {i \in 1 .. Len(op.stream) : op.stream[i].coord = c}

\* C30: for every coordinate c of the bbox, get_tile_stream(bbox) yields a
\* tile for c exactly when get_tile_data(c) returns Some(blob), it yields one
\* tile only, and the bytes are the same.
C30_PointAndStreamAgree ==
    (op.pc = "built" /\ op.streamed) =>
        /\ \A i \in 1 .. Len(op.stream) : op.stream[i].coord \in CoordsOf(op.bbox)
        /\ \A c \in DOMAIN op.points :
              IF op.points[c].some
              THEN /\ Cardinality(StreamedAt(c)) = 1
                   /\ \A i \in StreamedAt(c) : op.stream[i].blob = op.points[c].value
              ELSE StreamedAt(c) = {}

C30_Witness ==
    /\ op.pc = "built" /\ op.streamed
    /\ op.bbox = CornerBBox
    /\ DOMAIN op.points = CoordsOf(op.bbox)
    /\ op.sources[1].compression # op.sources[2].compression
    /\ op.sources[1].coords \cap op.sources[2].coords # {}
    /\ op.sources[2].coords \ op.sources[1].coords # {}
    /\ Len(op.stream) = 3
    /\ \E c \in DOMAIN op.points : ~op.points[c].some
    /\ \E i \in 1 .. Len(op.stream) : op.stream[i].blob.data = 2

\* the block b of level L + 1 lies inside the area of the block a of level L
InsideArea(b, a) ==
    /\ b.level = a.level + 1
    /\ CellX(b, op.size) \div 2 = CellX(a, op.size)
    /\ CellY(b, op.size) \div 2 = CellY(a, op.size)

\* the coarsest level that has a block
CoarsestLevel == CHOOSE l \in {b.level : b \in op.bboxes} :
                    \A b \in op.bboxes : l <= b.level

\* the blocks come parent after children
ParentAfterChildren ==
    \A i \in 1 .. Len(op.out), j \in 1 .. Len(op.out) :
        InsideArea(op.out[i], op.out[j]) => i < j

\* the list the test at main.rs 188-205 expects
TestExpected ==
    <<[level |-> 6, x_min |-> 1, y_min |-> 14, x_max |-> 15, y_max |-> 15],
      [level |-> 6, x_min |-> 16, y_min |-> 14, x_max |-> 31, y_max |-> 15],
      [level |-> 6, x_min |-> 1, y_min |-> 16, x_max |-> 15, y_max |-> 31],
      [level |-> 6, x_min |-> 16, y_min |-> 16, x_max |-> 31, y_max |-> 31],
      [level |-> 5, x_min |-> 0, y_min |-> 7, x_max |-> 15, y_max |-> 15],
      [level |-> 6, x_min |-> 32, y_min |-> 14, x_max |-> 47, y_max |-> 15],
      [level |-> 6, x_min |-> 48, y_min |-> 14, x_max |-> 60, y_max |-> 15],
      [level |-> 6, x_min |-> 32, y_min |-> 16, x_max |-> 47, y_max |-> 31],
      [level |-> 6, x_min |-> 48, y_min |-> 16, x_max |-> 60, y_max |-> 31],
      [level |-> 5, x_min |-> 16, y_min |-> 7, x_max |-> 30, y_max |-> 15],
      [level |-> 6, x_min |-> 1, y_min |-> 32, x_max |-> 15, y_max |-> 45],
      [level |-> 6, x_min |-> 16, y_min |-> 32, x_max |-> 31, y_max |-> 45],
      [level |-> 5, x_min |-> 0, y_min |-> 16, x_max |-> 15, y_max |-> 22],
      [level |-> 6, x_min |-> 32, y_min |-> 32, x_max |-> 47, y_max |-> 45],
      [level |-> 6, x_min |-> 48, y_min |-> 32, x_max |-> 60, y_max |-> 45],
      [level |-> 5, x_min |-> 16, y_min |-> 16, x_max |-> 30, y_max |-> 22],
      [level |-> 4, x_min |-> 0, y_min |-> 3, x_max |-> 15, y_max |-> 11]>>

\* C25 as stated: with DepthFirst every block of level L comes after all the
\* returned blocks of level L + 1 inside its area, and the blocks of the
\* coarsest level come last, after every block of a finer level.
C25_CoarsestLast ==
    op.pc = "sorted" =>
        /\ ParentAfterChildren
        /\ \A i \in 1 .. Len(op.out), j \in 1 .. Len(op.out) :
              (op.out[i].level = CoarsestLevel /\ op.out[j].level > CoarsestLevel)
                 => j < i

\* C25 amended: with DepthFirst every block of level L comes after all the
\* returned blocks of level L + 1 inside its area; the walk returns every
\* block once, and a block of the coarsest level is followed only by blocks
\* that are not inside its area, so it is the last block when it is the only
\* block of its level and all blocks are inside its area.
C25_PostOrder ==
    op.pc = "sorted" =>
        /\ ParentAfterChildren
        /\ {op.out[i] : i \in 1 .. Len(op.out)} = op.bboxes
        /\ Len(op.out) = Cardinality(op.bboxes)
        /\ (op.pyramid = TestPyramid /\ op.size = 16) => op.out = TestExpected
        /\ \A i \in 1 .. Len(op.out) :
              (/\ op.out[i].level = CoarsestLevel
               /\ \A j \in 1 .. Len(op.out) :
                     \/ j = i
                     \/ /\ op.out[j].level > CoarsestLevel
                        /\ CellX(op.out[j], op.size)
                              \div Pow2(op.out[j].level - CoarsestLevel)
                           = CellX(op.out[i], op.size)
                        /\ CellY(op.out[j], op.size)
                              \div Pow2(op.out[j].level - CoarsestLevel)
                           = CellY(op.out[i], op.size))
                 => i = Len(op.out)

C25_Witness ==
    /\ op.pc = "sorted"
    /\ op.size = 1
    /\ Len(op.out) = 21
    /\ op.out[5].level = 1
    /\ op.out[21].level = 0
    /\ \A i \in 1 .. 4 : op.out[i].level = 2

====
